---- MODULE Spec2Model ----
(***************************************************************************)
(* A model of the typed-jobs execution engine: the SimpleJob class         *)
(* (create-job.ts, in its lazy/asynchronous and its eager/synchronous      *)
(* variant), the driver registry (driver-manager.ts) and the part of the   *)
(* Redis/BullMQ driver (drivers/redis.ts) that delivers messages to the    *)
(* handler wrapper and interprets what the wrapper gives back.             *)
(*                                                                         *)
(* Every `await` of the source is an interleaving point: an asynchronous   *)
(* method is a call record in `calls` whose pc names the await it is       *)
(* suspended at, and one action runs the code between two awaits.          *)
(***************************************************************************)
EXTENDS Integers, Sequences, FiniteSets, TLC

\* ---------------------------------------------------------------- bounds
MaxMsgs == 2          \* messages the backend store ever holds
MaxDispatch == 1      \* of these, messages enqueued by dispatch calls
MaxQueues == 2        \* queue handles ever created
MaxWorkers == 2       \* backend workers ever created
MaxDrivers == 1       \* drivers ever constructed by setDriver
MaxSets == 3          \* the same, where only the registry and dispatch run
MaxJobs == 3          \* job files the worker process discovers
MaxSignals == 2       \* SIGINT / SIGTERM the worker process receives
MaxCalls == 2         \* asynchronous Job calls in flight at once
MaxOps == 4           \* Job calls started in one run
MaxMade == 2          \* attemptsMade of a message found in the store at start
MaxOverride == 3      \* opts.attempts of a message found in the store at start
MaxNow == 7500        \* the backend clock stops there, in milliseconds
TickMs == 2500        \* one step of the backend clock, in milliseconds

\* ------------------------------------------------------ program constants
\* `attempts?: number` and friends: the value of an omitted optional number
Undefined == -1
\* the hard default of `job.opts.attempts || this.options.attempts || 3`
DefaultAttempts == 3
\* `concurrency: options.concurrency || 1`
DefaultBackoffDelay == 1000
DefaultRemoveOnComplete == 100
DefaultRemoveOnFail == 50
DefaultConcurrency == 1
ConnectWaitMs == 5000

Data == {"a", "b"}
Variants == {"lazy", "eager"}
\* with the first create-job.ts, which uses BullMQ directly and no driver
AllVariants == Variants \cup {"legacy"}
\* the delays callers pass, in milliseconds
Delays == {0, 5000}
OptDelays == {Undefined} \cup Delays

\* BullMQ adds one to job.attemptsMade when it moves the job to completed or
\* failed; whether the job object handed to the event listeners already shows
\* it depends on the BullMQ release installed
FinishBumps == {0, 1}

VARIABLES
  variant,       \* which create-job.ts is loaded: "lazy" (async driver) or "eager"
  now,           \* the backend's clock, in milliseconds
  options,       \* this.options of the Job: [attempts, concurrency]
  globalDriver,  \* driver-manager.ts globalDriver: 0 is null, else a driver id
  conns,         \* per driver ever constructed: the state of its connection
  waits,         \* per driver ever constructed: its connectionPromise
  probe,         \* the outcome of the last call made to the driver registry
  boot,          \* start-worker.ts initializeWorker: where it is, the jobs it
                 \* found and registeredJobs.length
  rounds,        \* per shutdown() started: the state of each job's close()
  exitCode,      \* "running", or how the worker process has ended
  made,          \* whether the Job has been constructed
  queue,         \* this.queue: 0 is null, else an index into queues
  worker,        \* this.worker: 0 is null, else an index into workers
  queues,        \* every queue handle ever created by a driver
  workers,       \* every backend worker ever created by a driver
  calls,         \* the asynchronous Job calls (register, dispatch, close, ...)
  msgs,          \* the backend's durable store of messages of this queue name
  runs,          \* handler invocations in flight, by message
  log,           \* per message: the records jobLogger was given
  lastErr,       \* the error of the call that ended last, "none" if it resolved
  started,       \* the number of Job calls started so far
  sinceClose     \* "done": a close() that ran alone has completed and no other
                 \* Job call has run since; "during": such a close() is running

vars == <<variant, options, now, globalDriver, conns, waits, probe, boot, rounds,
          exitCode, made, queue, worker, queues,
          workers, calls, msgs, runs, log, lastErr, started, sinceClose>>

config == <<variant, options>>
registry == <<conns, waits, probe>>
proc == <<boot, rounds, exitCode>>

\* ---------------------------------------------------------------- helpers
\* RedisDriver.connectionPromise: whether waitForConnection() has resolved,
\* on which of its two paths, and when the driver was constructed
Settled(at) == [state |-> "resolved", by |-> "ready", at |-> at]
Waiting(at) == [state |-> "pending", by |-> "none", at |-> at]

\* `await this.connectionPromise` of driver d is over: the promise has
\* resolved (it has no path that rejects)
ConnectionWaited(d) == d \in 1..Len(waits) => waits[d].state = "resolved"

\* JavaScript `a || b` on optional numbers: undefined and 0 are falsy
Or(a, b) == IF a = Undefined \/ a = 0 THEN b ELSE a

Slots == 1..MaxCalls

Idle == [op |-> "none", pc |-> "idle", res |-> "none", data |-> "-",
         delay |-> Undefined, q |-> 0, w |-> 0, d |-> 0, run |-> 0, m |-> 0]

Free(c) == calls[c].pc = "idle"
\* a new call takes the lowest free slot
FreeSlot(c) == Free(c) /\ \A x \in Slots : x < c => ~Free(x)

\* the call of record rec ends: resolved ("none") or rejected with an error
Done(rec, err) == [rec EXCEPT !.pc = "done", !.res = err]

\* call c goes on as rec: suspended at rec.pc, or ended and its slot free
Settle(c, rec) ==
  IF rec.pc = "done"
    THEN /\ calls' = [calls EXCEPT ![c] = Idle]
         /\ lastErr' = rec.res
    ELSE /\ calls' = [calls EXCEPT ![c] = rec]
         /\ lastErr' = lastErr

RedispatchOps == {"redispatch", "redispatchWithData"}
AddOps == {"dispatch", "dispatchWithDelay", "redispatch", "redispatchWithData"}

\* handles, workers and messages that calls in flight are about to create
PendingQueues == Cardinality({c \in Slots : calls[c].pc = "gq_await"})
PendingWorkers ==
  Cardinality({c \in Slots : calls[c].op = "register" /\
                 calls[c].pc \in {"gq_await", "gq_ret", "cw_await"}})
PendingAdds ==
  Cardinality({c \in Slots : calls[c].op \in AddOps /\ calls[c].pc # "add_await"})

\* no call has been made to the driver registry yet
NoProbe == [fn |-> "none", ok |-> TRUE, err |-> "none", driver |-> 0,
            has |-> FALSE]

\* the worker process before initializeWorker() has done anything
NoBoot == [pc |-> "start", found |-> 0, registered |-> 0]

\* the options a Job is defined with: all omitted, or attempts and concurrency
JobOptions ==
  {[attempts |-> Undefined, concurrency |-> Undefined,
    backoffDelay |-> Undefined, removeOnComplete |-> Undefined,
    removeOnFail |-> Undefined],
   [attempts |-> 2, concurrency |-> 2, backoffDelay |-> 500,
    removeOnComplete |-> 10, removeOnFail |-> 10]}

\* the same with every policy option omitted, at its least value or larger
PolicyOptions ==
  [attempts : {Undefined, 1, 2}, concurrency : {Undefined, 2},
   backoffDelay : {Undefined, 0, 500}, removeOnComplete : {Undefined, 0, 10},
   removeOnFail : {Undefined, 0, 10}]

\* ------------------------------------------------------------------- Init
Init ==
  /\ variant \in Variants
  /\ options \in JobOptions
  /\ now = 0
  /\ globalDriver = 0
  /\ conns = <<>>
  /\ waits = <<>>
  /\ probe = NoProbe
  /\ boot = NoBoot
  /\ rounds = <<>>
  /\ exitCode = "running"
  /\ made = FALSE
  /\ queue = 0
  /\ worker = 0
  /\ queues = <<>>
  /\ workers = <<>>
  /\ calls = [c \in Slots |-> Idle]
  /\ msgs = <<>>
  /\ runs = <<>>
  /\ log = <<>>
  /\ lastErr = "none"
  /\ started = 0
  /\ sinceClose = "no"

\* --------------------------------------------------------- driver registry
\* config.type as callers may give it; "other" is a value outside DriverType
DriverTypes == {"redis", "rabbitmq", "other"}

\* createDriver(config): a new RedisDriver, or the error thrown
CreateDriver(type) ==
  IF type = "redis" THEN [ok |-> TRUE, err |-> "none"]
  ELSE IF type = "rabbitmq"
    THEN [ok |-> FALSE, err |-> "RabbitMQ driver not yet implemented"]
    ELSE [ok |-> FALSE, err |-> "Unknown driver type"]

\* a registry that installs a driver only while it has none
SetDriverOnce(type) ==
  /\ conns' = IF CreateDriver(type).ok THEN Append(conns, "open") ELSE conns
  /\ waits' = IF CreateDriver(type).ok THEN Append(waits, Settled(now))
                                       ELSE waits
  /\ globalDriver' = IF CreateDriver(type).ok /\ globalDriver = 0
                       THEN Len(conns) + 1 ELSE globalDriver
  /\ probe' = [NoProbe EXCEPT !.fn = "setDriver", !.ok = CreateDriver(type).ok,
                              !.err = CreateDriver(type).err]

\* a setDriver() that clears the registry before it calls createDriver()
SetDriverClearsFirst(type) ==
  /\ conns' = IF CreateDriver(type).ok THEN Append(conns, "open") ELSE conns
  /\ waits' = IF CreateDriver(type).ok THEN Append(waits, Settled(now))
                                       ELSE waits
  /\ globalDriver' = IF CreateDriver(type).ok THEN Len(conns) + 1 ELSE 0
  /\ probe' = [NoProbe EXCEPT !.fn = "setDriver", !.ok = CreateDriver(type).ok,
                              !.err = CreateDriver(type).err]

\* setDriver(config): globalDriver = createDriver(config). The driver that
\* was installed before is dropped as it is; a throwing createDriver leaves
\* globalDriver as it was
SetDriverTo(type) ==
  /\ conns' = IF CreateDriver(type).ok THEN Append(conns, "open") ELSE conns
  /\ waits' = IF CreateDriver(type).ok THEN Append(waits, Settled(now))
                                       ELSE waits
  /\ globalDriver' = IF CreateDriver(type).ok
                       THEN Len(conns) + 1 ELSE globalDriver
  /\ probe' = [NoProbe EXCEPT !.fn = "setDriver", !.ok = CreateDriver(type).ok,
                              !.err = CreateDriver(type).err]

\* setDriver(config) with config.type = "redis": createDriver constructs a new
\* RedisDriver and the registry installs it, dropping the previous one
SetDriver ==
  /\ globalDriver < MaxDrivers
  /\ SetDriverTo("redis")
  /\ UNCHANGED <<config, proc, now, started, made, queue, worker, queues, workers, calls, msgs,
                 runs, log, lastErr, sinceClose>>

\* a getDriver() that hands out globalDriver without looking at it
GetDriverUnchecked ==
  [NoProbe EXCEPT !.fn = "getDriver", !.driver = globalDriver]

\* getDriver(): the installed driver, or the error thrown when there is none
GetDriver ==
  IF globalDriver = 0
    THEN [NoProbe EXCEPT !.fn = "getDriver", !.ok = FALSE,
                         !.err = "Driver not initialized"]
    ELSE [NoProbe EXCEPT !.fn = "getDriver", !.driver = globalDriver]

\* hasDriver(): globalDriver !== null
HasDriver == globalDriver # 0

\* ----------------------------------------- the registry called on its own
SetDriverCall(type) ==
  /\ CreateDriver(type).ok => Len(conns) < MaxSets
  /\ SetDriverTo(type)
  /\ UNCHANGED <<config, proc, now, started, made, queue, worker, queues, workers, calls, msgs,
                 runs, log, lastErr, sinceClose>>

GetDriverCall ==
  /\ probe' = GetDriver
  /\ UNCHANGED <<config, proc, now, started, globalDriver, conns, waits, made, queue, worker, queues,
                 workers, calls, msgs, runs, log, lastErr, sinceClose>>

HasDriverCall ==
  /\ probe' = [NoProbe EXCEPT !.fn = "hasDriver", !.has = HasDriver]
  /\ UNCHANGED <<config, proc, now, started, globalDriver, conns, waits, made, queue, worker, queues,
                 workers, calls, msgs, runs, log, lastErr, sinceClose>>

\* --------------------------------------------------------- backend handles
\* RedisDriver.createQueue: new Queue(name, {defaultJobOptions: {attempts:
\* options.attempts || 3, ...}}) wrapped in a RedisQueue
NewQueue(d) ==
  [driver |-> d, closed |-> FALSE,
   attempts |-> Or(options.attempts, DefaultAttempts),
   backoffDelay |-> Or(options.backoffDelay, DefaultBackoffDelay),
   removeOnComplete |-> Or(options.removeOnComplete, DefaultRemoveOnComplete),
   removeOnFail |-> Or(options.removeOnFail, DefaultRemoveOnFail)]

\* RedisDriver.createWorker: new Worker(queue.name, processor, {concurrency:
\* options.concurrency || 1}) wrapped in a RedisWorker with no listener yet;
\* the legacy variant has `concurrency: 1` written out
NewWorker(d, q) ==
  [driver |-> d, q |-> q, state |-> "open", attached |-> FALSE,
   concurrency |-> IF variant = "legacy" THEN 1
                   ELSE Or(options.concurrency, DefaultConcurrency)]

\* an add() that drops its options: the message has no delay
NewMsgNoDelay(q, data, delay, via) ==
  [data |-> data, attemptsMade |-> 0, attempts |-> queues[q].attempts,
   delay |-> Undefined, via |-> via, at |-> now, state |-> "wait"]

\* a backend that holds back every message that names a delay, 0 included
NewMsgZeroDelays(q, data, delay, via) ==
  [data |-> data, attemptsMade |-> 0, attempts |-> queues[q].attempts,
   delay |-> delay, via |-> via, at |-> now,
   state |-> IF delay # Undefined THEN "delayed" ELSE "wait"]

\* a message that starts with an attempt already counted
NewMsgCounted(q, data, delay, via) ==
  [data |-> data, attemptsMade |-> 1, attempts |-> queues[q].attempts,
   delay |-> delay, via |-> via, at |-> now,
   state |-> IF delay # Undefined /\ delay > 0 THEN "delayed" ELSE "wait"]

\* RedisQueue.add -> BullMQ Queue.add: the message gets the queue's default
\* attempts, starts with attemptsMade 0 and is held back when it has a delay
NewMsg(q, data, delay, via) ==
  [data |-> data, attemptsMade |-> 0, attempts |-> queues[q].attempts,
   delay |-> delay, via |-> via, at |-> now,
   state |-> IF delay # Undefined /\ delay > 0 THEN "delayed" ELSE "wait"]

NoCtx == [data |-> "-", attempt |-> 0, maxAttempts |-> 0, canRetry |-> FALSE]
NoOut == [kind |-> "none", success |-> FALSE, error |-> "-", data |-> "-"]
NoJob == [data |-> "-", attemptsMade |-> 0, attempts |-> Undefined]
NoResult == [kind |-> "none", text |-> "-"]
NoRun == [pc |-> "none", w |-> 0, job |-> NoJob, ctx |-> NoCtx,
          res |-> NoResult, out |-> NoOut]

\* ------------------------------------------------------------- constructor
\* new SimpleJob(options, handler): the lazy variant only stores its
\* arguments; the eager variant calls getDriver() (which throws when no driver
\* is installed, so no Job comes to exist) and driver.createQueue() at once
NewJob ==
  /\ ~made
  /\ IF variant = "lazy"
       THEN /\ made' = TRUE
            /\ UNCHANGED <<queue, queues, lastErr>>
       ELSE IF globalDriver = 0
         THEN /\ lastErr' = "DriverNotInitialized"
              /\ UNCHANGED <<made, queue, queues>>
         ELSE /\ Len(queues) < MaxQueues
              /\ made' = TRUE
              /\ queues' = Append(queues, NewQueue(globalDriver))
              /\ queue' = Len(queues) + 1
              /\ lastErr' = lastErr
  /\ UNCHANGED <<config, proc, now, registry, started, globalDriver, worker, workers, calls, msgs, runs,
                 log, sinceClose>>

\* ------------------------------------------------------------- getQueue()
\* SimpleJob.getQueue up to its first suspension, as the new state of the
\* calling record: the handle when there is one, else getDriver() (throwing
\* when none is installed) and the start of driver.createQueue()
GetQueue(rec) ==
  IF queue # 0 THEN [rec EXCEPT !.pc = "gq_ret", !.q = queue]
  ELSE IF globalDriver = 0 THEN Done(rec, "DriverNotInitialized")
  ELSE [rec EXCEPT !.pc = "gq_await", !.d = globalDriver]

\* room for the handle a getQueue() started now may have to create
QueueRoom == queue # 0 \/ Len(queues) + PendingQueues < MaxQueues

\* driver.createQueue() resolves: `this.queue = await queueResult; return this.queue`
CreateQueueDone(c) ==
  /\ calls[c].pc = "gq_await"
  /\ ConnectionWaited(calls[c].d)
  /\ Len(queues) < MaxQueues
  /\ queues' = Append(queues, NewQueue(calls[c].d))
  /\ queue' = Len(queues) + 1
  /\ calls' = [calls EXCEPT ![c] = [@ EXCEPT !.pc = "gq_ret",
                                             !.q = Len(queues) + 1]]
  /\ sinceClose' = "no"
  /\ UNCHANGED <<config, proc, now, registry, started, globalDriver, made, worker, workers, msgs, runs,
                 log, lastErr>>

\* getQueueInstance() (lazy: `return this.getQueue()`) and the getQueue() of
\* the eager variant, which returns this.queue as it is
GetQueueInstance(c) ==
  /\ made /\ FreeSlot(c)
  /\ LET rec == [Idle EXCEPT !.op = "getQueueInstance"] IN
     IF variant = "lazy"
       THEN QueueRoom /\ Settle(c, GetQueue(rec))
       ELSE Settle(c, Done([rec EXCEPT !.q = queue], "none"))
  /\ sinceClose' = "no"
  /\ started < MaxOps /\ started' = started + 1
  /\ UNCHANGED <<config, proc, now, registry, globalDriver, made, queue, worker, queues,
                 workers, msgs, runs, log>>

\* getQueueInstance() resumes with the handle and returns it
QueueInstanceReturn(c) ==
  /\ calls[c].op = "getQueueInstance" /\ calls[c].pc = "gq_ret"
  /\ Settle(c, Done(calls[c], "none"))
  /\ sinceClose' = "no"
  /\ UNCHANGED <<config, proc, now, registry, started, globalDriver, made, queue, worker,
                 queues, workers, msgs, runs, log>>

\* -------------------------------------------------------------- register()
\* the listeners register() installs on the worker it was given
Attach(ws, w) == [ws EXCEPT ![w].attached = TRUE]

\* register() up to its first suspension. `if (this.worker) throw`; then the
\* lazy variant awaits getQueue(), while the eager variant has no await at
\* all: getDriver(), createWorker(), this.worker = ..., this.worker.on(...)
RegisterStart(c) ==
  /\ made /\ FreeSlot(c)
  /\ LET rec == [Idle EXCEPT !.op = "register"] IN
     IF worker # 0
       THEN /\ Settle(c, Done(rec, "WorkerAlreadyRegistered"))
            /\ UNCHANGED <<worker, workers>>
     ELSE IF variant = "lazy"
       THEN /\ QueueRoom
            /\ Len(workers) + PendingWorkers < MaxWorkers
            /\ Settle(c, GetQueue(rec))
            /\ UNCHANGED <<worker, workers>>
       ELSE /\ Len(workers) < MaxWorkers
            /\ workers' = Attach(Append(workers, NewWorker(globalDriver, queue)),
                                 Len(workers) + 1)
            /\ worker' = Len(workers) + 1
            /\ Settle(c, Done(rec, "none"))
  /\ sinceClose' = "no"
  /\ started < MaxOps /\ started' = started + 1
  /\ UNCHANGED <<config, proc, now, registry, globalDriver, made, queue, queues, msgs, runs, log>>

\* register() resumes with the queue: getDriver() and driver.createWorker(),
\* which suspends on the driver's connection wait
RegisterCreateWorker(c) ==
  /\ calls[c].op = "register" /\ calls[c].pc = "gq_ret"
  /\ calls' = [calls EXCEPT ![c] = [@ EXCEPT !.pc = "cw_await",
                                             !.d = globalDriver]]
  /\ sinceClose' = "no"
  /\ UNCHANGED <<config, proc, now, registry, started, globalDriver, made, queue, worker, queues, workers,
                 msgs, runs, log, lastErr>>

\* driver.createWorker() gets past its wait: the BullMQ Worker now exists
CreateWorkerDone(c) ==
  /\ calls[c].pc = "cw_await"
  /\ ConnectionWaited(calls[c].d)
  /\ Len(workers) < MaxWorkers
  /\ workers' = Append(workers, NewWorker(calls[c].d, calls[c].q))
  /\ calls' = [calls EXCEPT ![c] = [@ EXCEPT !.pc = "cw_ret",
                                             !.w = Len(workers) + 1]]
  /\ sinceClose' = "no"
  /\ UNCHANGED <<config, proc, now, registry, started, globalDriver, made, queue, worker, queues, msgs,
                 runs, log, lastErr>>

\* `this.worker = await workerResult`, then the two this.worker.on(...) calls
RegisterAssign(c) ==
  /\ calls[c].pc = "cw_ret"
  /\ worker' = calls[c].w
  /\ workers' = Attach(workers, calls[c].w)
  /\ Settle(c, Done(calls[c], "none"))
  /\ sinceClose' = "no"
  /\ UNCHANGED <<config, proc, now, registry, started, globalDriver, made, queue, queues, msgs, runs, log>>

\* ------------------------------------------------- dispatch / redispatch
\* what RedisQueue.add can do on handle q: it enqueues; on a handle whose
\* close() has started, or whose connection is down, the backend may also
\* reject the command
AddOutcomes(q) ==
  IF queues[q].closed \/ conns[queues[q].driver] = "down"
    THEN {TRUE, FALSE}
    ELSE {TRUE}

\* a handler suspended in `await redispatch(...)` goes on when the call settles
Resume(rs, rec) ==
  IF rec.run = 0 THEN rs ELSE [rs EXCEPT ![rec.run].pc = "running"]

\* the delay option the call of record rec gives to add(): the caller's delay
\* as it is ({delay}), but the legacy closures `if (delay) ... else ...` call
\* add() without options for a delay of 0 as for none
AddDelay(rec) ==
  IF variant = "legacy" /\ rec.op \in RedispatchOps /\ rec.delay = 0
    THEN Undefined
    ELSE rec.delay

\* `await driverQueue.add(driverQueue.name, data, options)` of call c, whose
\* record is rec and whose handle is rec.q, up to the await: the command goes
\* to the backend, which stores the message (rec.m is its place) or refuses
\* (rec.m stays 0); rs is runs as the caller left it
Enqueue(c, rec, rs) ==
  \E ok \in AddOutcomes(rec.q) :
    /\ IF ok
         THEN /\ msgs' = Append(msgs, NewMsg(rec.q, rec.data, AddDelay(rec), rec.op))
              /\ runs' = Append(rs, NoRun)
              /\ log' = Append(log, <<>>)
         ELSE /\ msgs' = msgs
              /\ runs' = rs
              /\ log' = log
    /\ Settle(c, [rec EXCEPT !.pc = "add_await",
                             !.m = IF ok THEN Len(msgs) + 1 ELSE 0])

\* the messages that were in the store before this process enqueued any
Stored == {m \in 1..Len(msgs) : msgs[m].via = "stored"}

\* the store has room for MaxMsgs messages, and for one message more than it
\* held at the start
MsgRoom ==
  Len(msgs) + PendingAdds <
    IF Cardinality(Stored) + 1 > MaxMsgs THEN Cardinality(Stored) + 1
                                         ELSE MaxMsgs

\* the calls that enqueue from outside a handler
DispatchOps == {"dispatch", "dispatchWithDelay"}
DispatchRoom ==
  Cardinality({m \in 1..Len(msgs) : msgs[m].via \in DispatchOps}) +
  Cardinality({c \in Slots : calls[c].op \in DispatchOps /\
                               calls[c].pc # "add_await"}) < MaxDispatch

\* an enqueueing call up to its first suspension: the lazy variant awaits
\* getQueue(), the eager variant calls this.queue.add() at once
StartAdd(c, rec, rs) ==
  IF variant = "lazy"
    THEN /\ QueueRoom
         /\ Settle(c, GetQueue(rec))
         /\ runs' = IF GetQueue(rec).pc = "done" THEN Resume(rs, rec) ELSE rs
         /\ UNCHANGED <<msgs, log>>
    ELSE Enqueue(c, [rec EXCEPT !.q = queue], rs)

\* dispatch(data): add(name, data) with no options
Dispatch(c, data) ==
  /\ made /\ FreeSlot(c) /\ MsgRoom /\ DispatchRoom
  /\ StartAdd(c, [Idle EXCEPT !.op = "dispatch", !.data = data], runs)
  /\ sinceClose' = "no"
  /\ started < MaxOps /\ started' = started + 1
  /\ UNCHANGED <<config, proc, now, registry, globalDriver, made, queue, worker, queues, workers>>

\* dispatchWithDelay(data, delay): add(name, data, {delay})
DispatchWithDelay(c, data, delay) ==
  /\ made /\ FreeSlot(c) /\ MsgRoom /\ DispatchRoom
  /\ StartAdd(c, [Idle EXCEPT !.op = "dispatchWithDelay", !.data = data,
                              !.delay = delay], runs)
  /\ sinceClose' = "no"
  /\ started < MaxOps /\ started' = started + 1
  /\ UNCHANGED <<config, proc, now, registry, globalDriver, made, queue, worker, queues, workers>>

\* an enqueueing call of the lazy variant resumes with the queue handle
AddResume(c) ==
  /\ calls[c].op \in AddOps /\ calls[c].pc = "gq_ret"
  /\ Enqueue(c, calls[c], runs)
  /\ sinceClose' = "no"
  /\ UNCHANGED <<config, proc, now, registry, started, globalDriver, made, queue, worker, queues, workers>>

\* an add() whose rejection is caught and dropped: the call resolves
AddDoneSwallows(c) ==
  /\ calls[c].pc = "add_await"
  /\ Settle(c, Done(calls[c], "none"))
  /\ runs' = Resume(runs, calls[c])
  /\ sinceClose' = "no"
  /\ UNCHANGED <<config, proc, now, registry, started, globalDriver, made, queue, worker, queues,
                 workers, msgs, log>>

\* add() settles: the call resolves, or rejects with the backend's error; a
\* handler that awaited the redispatch goes on
AddDone(c) ==
  /\ calls[c].pc = "add_await"
  /\ Settle(c, Done(calls[c], IF calls[c].m # 0 THEN "none" ELSE "AddFailed"))
  /\ runs' = Resume(runs, calls[c])
  /\ sinceClose' = "no"
  /\ UNCHANGED <<config, proc, now, registry, started, globalDriver, made, queue, worker, queues,
                 workers, msgs, log>>

\* ------------------------------------------------------------------ close()
\* a Worker.close() that does not wait for the handlers that are running
DrainedAtOnce(w) == TRUE

\* BullMQ Worker.close() resolves once the handlers running on it have ended
Drained(w) == \A m \in 1..Len(runs) : runs[m].w # w

\* bookkeeping of sinceClose: a close() starts, a close() completes
Closing == IF sinceClose = "done" THEN "done"
           ELSE IF \A c \in Slots : Free(c) THEN "during" ELSE "no"
Closed(since) == IF since = "no" THEN "no" ELSE "done"

\* `if (this.queue) { await this.queue.close(); ... }` up to the await; the
\* eager variant has no test and always calls this.queue.close()
CloseQueue(c, rec, since) ==
  IF variant = "eager" \/ queue # 0
    THEN /\ queues' = [queues EXCEPT ![queue].closed = TRUE]
         /\ Settle(c, [rec EXCEPT !.pc = "qclose_await", !.q = queue])
         /\ sinceClose' = since
    ELSE /\ queues' = queues
         /\ Settle(c, Done(rec, "none"))
         /\ sinceClose' = Closed(since)

\* close() up to its first suspension: `if (this.worker) await this.worker.close()`
\* stops the worker taking messages; without a worker it goes on to the queue
CloseStart(c) ==
  /\ made /\ FreeSlot(c)
  /\ LET rec == [Idle EXCEPT !.op = "close"] IN
     IF worker # 0
       THEN /\ workers' = [workers EXCEPT ![worker].state =
                             IF @ = "open" THEN "closing" ELSE @]
            /\ Settle(c, [rec EXCEPT !.pc = "wclose_await", !.w = worker])
            /\ sinceClose' = Closing
            /\ UNCHANGED queues
       ELSE /\ CloseQueue(c, rec, Closing)
            /\ UNCHANGED workers
  /\ started < MaxOps /\ started' = started + 1
  /\ UNCHANGED <<config, proc, now, registry, globalDriver, made, queue, worker, msgs, runs, log>>

\* worker.close() resolves: `this.worker = null`, then the queue part
CloseWorkerDone(c) ==
  /\ calls[c].pc = "wclose_await"
  /\ Drained(calls[c].w)
  /\ workers' = [workers EXCEPT ![calls[c].w].state = "closed"]
  /\ worker' = 0
  /\ CloseQueue(c, calls[c], sinceClose)
  /\ UNCHANGED <<config, proc, now, registry, started, globalDriver, made, queue, msgs, runs, log>>

\* queue.close() resolves: the lazy variant forgets the handle (`this.queue = null`)
CloseQueueDone(c) ==
  /\ calls[c].pc = "qclose_await"
  /\ queue' = IF variant = "lazy" THEN 0 ELSE queue
  /\ Settle(c, Done(calls[c], "none"))
  /\ sinceClose' = Closed(sinceClose)
  /\ UNCHANGED <<config, proc, now, registry, started, globalDriver, made, worker, queues, workers, msgs,
                 runs, log>>

\* ------------------------------------------------- delivery and the handler
\* a handler that gets a context whose data is not the message's
DriverJobNoData(msg) ==
  [data |-> "-", attemptsMade |-> msg.attemptsMade, attempts |-> msg.attempts]

\* the DriverJob the driver's processor builds from the BullMQ job
DriverJob(msg) ==
  [data |-> msg.data, attemptsMade |-> msg.attemptsMade, attempts |-> msg.attempts]

\* a context that numbers attempts from 0, as the backend does
AttemptZeroBased(job) == job.attemptsMade

\* `attempt: job.attemptsMade + 1`
Attempt(job) == job.attemptsMade + 1

\* a context that prefers the Job's option to the message's own
MaxAttemptsJobFirst(job) == Or(options.attempts, Or(job.attempts, DefaultAttempts))

\* `maxAttempts: job.opts.attempts || this.options.attempts || 3`
MaxAttempts(job) == Or(job.attempts, Or(options.attempts, DefaultAttempts))

\* a context for which the last attempt still counts as retryable
CanRetryInclusive(job) ==
  job.attemptsMade + 1 <= Or(job.attempts, Or(options.attempts, DefaultAttempts))

\* `canRetry: job.attemptsMade + 1 < (job.opts.attempts || this.options.attempts || 3)`
CanRetry(job) ==
  job.attemptsMade + 1 < Or(job.attempts, Or(options.attempts, DefaultAttempts))

\* the JobContext the wrapper hands to the user's handler
Context(job) ==
  [data |-> job.data, attempt |-> Attempt(job),
   maxAttempts |-> MaxAttempts(job), canRetry |-> CanRetry(job)]

\* what the user's handler can do in the end: return a value, or throw an
\* Error (for an async handler, the same as returning a rejected promise)
HandlerResults ==
  {[kind |-> "return", text |-> "result"],
   [kind |-> "throw", text |-> "boom"]}

\* `error instanceof Error ? error.message : String(error)`
ErrorText(thrown) == thrown.text

\* a wrapper whose catch logs and then reports success without data
WrapperSwallows(result) ==
  [kind |-> "value", success |-> TRUE, error |-> "-",
   data |-> IF result.kind = "throw" THEN "-" ELSE result.text]

\* a wrapper without the try/catch: the handler's exception goes through
WrapperRethrows(result) ==
  IF result.kind = "throw"
    THEN [kind |-> "exception", success |-> FALSE, error |-> ErrorText(result),
          data |-> "-"]
    ELSE [kind |-> "value", success |-> TRUE, error |-> "-",
          data |-> result.text]

\* the try/catch of the wrapper: what the promise it returned settles to.
\* kind "value" is a fulfilled promise, kind "exception" a rejected one
Wrapper(result) ==
  IF result.kind = "throw"
    THEN [kind |-> "value", success |-> FALSE, error |-> ErrorText(result),
          data |-> "-"]
    ELSE [kind |-> "value", success |-> TRUE, error |-> "-",
          data |-> result.text]

\* jobLogger.error({event: "job_failed", ..., attempt: job.attemptsMade + 1})
\* of the catch branch
WrapperLog(job, result) ==
  IF result.kind = "throw"
    THEN <<[by |-> "wrapper", event |-> "job_failed",
            attempt |-> job.attemptsMade + 1, error |-> ErrorText(result)]>>
    ELSE <<>>

Running(w) == Cardinality({m \in 1..Len(runs) : runs[m].w = w})

\* the backend's timer with the passing of time left out: a delayed message
\* becomes visible to workers
DelayElapsed(m) ==
  /\ m \in 1..Len(msgs) /\ msgs[m].state = "delayed"
  /\ msgs' = [msgs EXCEPT ![m].state = "wait"]
  /\ UNCHANGED <<config, proc, now, registry, started, globalDriver, made, queue, worker, queues, workers,
                 calls, runs, log, lastErr, sinceClose>>

\* the backend's clock advances
Tick ==
  /\ now < MaxNow
  /\ now' = now + TickMs
  /\ UNCHANGED <<config, proc, registry, started, globalDriver, made, queue, worker, queues,
                 workers, calls, msgs, runs, log, lastErr, sinceClose>>

\* the backend's timer by the clock: a delayed message becomes visible to
\* workers once its delay has elapsed since it was added
TimerFires(m) ==
  /\ m \in 1..Len(msgs) /\ msgs[m].state = "delayed"
  /\ now >= msgs[m].at + msgs[m].delay
  /\ msgs' = [msgs EXCEPT ![m].state = "wait"]
  /\ UNCHANGED <<config, proc, now, registry, started, globalDriver, made, queue, worker,
                 queues, workers, calls, runs, log, lastErr, sinceClose>>

\* a worker that invokes the handler for a message it leaves visible, so that
\* the same delivery reaches the handler again
DeliverKeepsVisible(w, m) ==
  /\ w \in 1..Len(workers) /\ m \in 1..Len(msgs)
  /\ workers[w].state = "open" /\ workers[w].attached
  /\ msgs[m].state = "wait"
  /\ Running(w) < workers[w].concurrency
  /\ runs' = [runs EXCEPT ![m] = [NoRun EXCEPT !.pc = "running", !.w = w,
                                               !.job = DriverJob(msgs[m]),
                                               !.ctx = Context(DriverJob(msgs[m]))]]
  /\ UNCHANGED <<config, proc, now, registry, started, globalDriver, made, queue, worker, queues, workers,
                 calls, msgs, log, lastErr, sinceClose>>

\* a worker that takes messages while the continuation of the register()
\* that created it is still to run
DeliverInWindow(w, m) ==
  /\ w \in 1..Len(workers) /\ m \in 1..Len(msgs)
  /\ workers[w].state = "open"
  /\ msgs[m].state = "wait"
  /\ Running(w) < workers[w].concurrency
  /\ msgs' = [msgs EXCEPT ![m].state = "active"]
  /\ runs' = [runs EXCEPT ![m] = [NoRun EXCEPT !.pc = "running", !.w = w,
                                               !.job = DriverJob(msgs[m]),
                                               !.ctx = Context(DriverJob(msgs[m]))]]
  /\ UNCHANGED <<config, proc, now, registry, started, globalDriver, made, queue, worker, queues, workers,
                 calls, log, lastErr, sinceClose>>

\* createWorker() returns the worker without a further await, so the
\* continuation of register() that assigns it and attaches the listeners is
\* a microtask; the worker takes its first message after a round trip to the
\* backend, so after that continuation has run
PastFirstTurn(w) ==
  \A c \in Slots : ~(calls[c].pc = "cw_ret" /\ calls[c].w = w)

\* the BullMQ worker takes a visible message while it has a free concurrency
\* slot, its processor builds the DriverJob and calls the wrapper, which
\* builds the context and calls the user's handler
Deliver(w, m) ==
  /\ w \in 1..Len(workers) /\ m \in 1..Len(msgs)
  /\ workers[w].state = "open" /\ PastFirstTurn(w)
  /\ msgs[m].state = "wait"
  /\ Running(w) < workers[w].concurrency
  /\ msgs' = [msgs EXCEPT ![m].state = "active"]
  /\ runs' = [runs EXCEPT ![m] = [NoRun EXCEPT !.pc = "running", !.w = w,
                                               !.job = DriverJob(msgs[m]),
                                               !.ctx = Context(DriverJob(msgs[m]))]]
  /\ UNCHANGED <<config, proc, now, registry, started, globalDriver, made, queue, worker, queues, workers,
                 calls, log, lastErr, sinceClose>>

\* a redispatch() that reads the job from a field every invocation writes:
\* it enqueues the payload of the invocation in progress on the newest message
RedispatchShared(m, c, delay) ==
  /\ m \in 1..Len(runs) /\ runs[m].pc = "running"
  /\ FreeSlot(c) /\ MsgRoom
  /\ StartAdd(c, [Idle EXCEPT !.op = "redispatch",
                              !.data = LET last == CHOOSE n \in 1..Len(runs) :
                                             /\ runs[n].pc # "none"
                                             /\ \A k \in 1..Len(runs) :
                                                  runs[k].pc # "none" => k <= n
                                       IN runs[last].job.data,
                              !.delay = delay, !.run = m],
              [runs EXCEPT ![m].pc = "awaiting"])
  /\ sinceClose' = "no"
  /\ started < MaxOps /\ started' = started + 1
  /\ UNCHANGED <<config, proc, now, registry, globalDriver, made, queue, worker, queues, workers>>

\* a redispatch() that is refused once the attempts budget is used up
RedispatchWithinBudget(m, c, delay) ==
  /\ m \in 1..Len(runs) /\ runs[m].pc = "running"
  /\ runs[m].ctx.canRetry
  /\ FreeSlot(c) /\ MsgRoom
  /\ StartAdd(c, [Idle EXCEPT !.op = "redispatch", !.data = runs[m].job.data,
                              !.delay = delay, !.run = m],
              [runs EXCEPT ![m].pc = "awaiting"])
  /\ sinceClose' = "no"
  /\ started < MaxOps /\ started' = started + 1
  /\ UNCHANGED <<config, proc, now, registry, globalDriver, made, queue, worker, queues, workers>>

\* the handler calls context.redispatch(delay): add(name, job.data, {delay})
Redispatch(m, c, delay) ==
  /\ m \in 1..Len(runs) /\ runs[m].pc = "running"
  /\ FreeSlot(c) /\ MsgRoom
  /\ StartAdd(c, [Idle EXCEPT !.op = "redispatch", !.data = runs[m].job.data,
                              !.delay = delay, !.run = m],
              [runs EXCEPT ![m].pc = "awaiting"])
  /\ sinceClose' = "no"
  /\ started < MaxOps /\ started' = started + 1
  /\ UNCHANGED <<config, proc, now, registry, globalDriver, made, queue, worker, queues, workers>>

\* the handler calls context.redispatchWithData(newData, delay)
RedispatchWithData(m, c, newData, delay) ==
  /\ m \in 1..Len(runs) /\ runs[m].pc = "running"
  /\ FreeSlot(c) /\ MsgRoom
  /\ StartAdd(c, [Idle EXCEPT !.op = "redispatchWithData", !.data = newData,
                              !.delay = delay, !.run = m],
              [runs EXCEPT ![m].pc = "awaiting"])
  /\ sinceClose' = "no"
  /\ started < MaxOps /\ started' = started + 1
  /\ UNCHANGED <<config, proc, now, registry, globalDriver, made, queue, worker, queues, workers>>

\* the handler's promise settles and the wrapper returns (or catches, logs
\* and returns)
HandlerSettles(m, result) ==
  /\ m \in 1..Len(runs) /\ runs[m].pc = "running"
  /\ runs' = [runs EXCEPT ![m].pc = "returned", ![m].res = result,
                           ![m].out = Wrapper(result)]
  /\ log' = [log EXCEPT ![m] = @ \o WrapperLog(runs[m].job, result)]
  /\ UNCHANGED <<config, proc, now, registry, started, globalDriver, made, queue, worker, queues, workers,
                 calls, msgs, lastErr, sinceClose>>

\* ------------------------------------------------- the backend's verdict
\* the job the RedisWorker forwards with a completed/failed event (toDriverJob)
EventJob(msg, bump) ==
  [data |-> msg.data, attemptsMade |-> msg.attemptsMade + bump,
   attempts |-> msg.attempts]

\* the "completed" listener of register(): attempt: job.attemptsMade + 1
CompletedLog(job) ==
  [by |-> "listener", event |-> "job_completed",
   attempt |-> job.attemptsMade + 1, error |-> "-"]

\* the "failed" listener of register(): attempt: job.attemptsMade + 1
FailedLog(job, text) ==
  [by |-> "listener", event |-> "job_failed",
   attempt |-> job.attemptsMade + 1, error |-> text]

\* BullMQ retries a job whose processor threw while attempts are left
RetryLeft(msg) ==
  msg.attempts # Undefined /\ msg.attemptsMade + 1 < msg.attempts

\* the processor `async (job) => { ...; return handler(driverJob) }` settles
\* and BullMQ decides: a fulfilled promise completes the job whatever value
\* it carries; a rejected one fails it, to be retried while attempts are
\* left. The RedisWorker forwards the event to the listener of register()
BackendFinish(m, bump) ==
  /\ m \in 1..Len(runs) /\ runs[m].pc = "returned"
  /\ LET out == runs[m].out
         on  == workers[runs[m].w].attached
     IN
     IF out.kind = "value"
       THEN /\ msgs' = [msgs EXCEPT ![m].state = "completed"]
            /\ log' = [log EXCEPT ![m] =
                         IF on THEN Append(@, CompletedLog(EventJob(msgs[m], bump)))
                         ELSE @]
       ELSE /\ msgs' = [msgs EXCEPT
                          ![m].state = IF RetryLeft(msgs[m]) THEN "wait"
                                       ELSE "failed",
                          ![m].attemptsMade = @ + 1]
            /\ log' = [log EXCEPT ![m] =
                         IF on THEN Append(@, FailedLog(EventJob(msgs[m], bump),
                                                   out.error))
                         ELSE @]
  /\ runs' = [runs EXCEPT ![m] = NoRun]
  /\ UNCHANGED <<config, proc, now, registry, started, globalDriver, made, queue, worker, queues, workers,
                 calls, lastErr, sinceClose>>

\* ------------------------------------------------------------ specification
Next ==
  \/ SetDriver
  \/ NewJob
  \/ \E c \in Slots : RegisterStart(c)
  \/ \E c \in Slots : CreateQueueDone(c)
  \/ \E c \in Slots : RegisterCreateWorker(c)
  \/ \E c \in Slots : CreateWorkerDone(c)
  \/ \E c \in Slots : RegisterAssign(c)
  \/ \E c \in Slots, data \in Data : Dispatch(c, data)
  \/ \E c \in Slots, data \in Data, delay \in Delays :
       DispatchWithDelay(c, data, delay)
  \/ \E c \in Slots : AddResume(c)
  \/ \E c \in Slots : AddDone(c)
  \/ \E c \in Slots : CloseStart(c)
  \/ \E c \in Slots : CloseWorkerDone(c)
  \/ \E c \in Slots : CloseQueueDone(c)
  \/ \E m \in 1..MaxMsgs : DelayElapsed(m)
  \/ \E w \in 1..MaxWorkers, m \in 1..MaxMsgs : Deliver(w, m)
  \/ \E m \in 1..MaxMsgs, c \in Slots, delay \in OptDelays :
       Redispatch(m, c, delay)
  \/ \E m \in 1..MaxMsgs, c \in Slots, newData \in Data, delay \in OptDelays :
       RedispatchWithData(m, c, newData, delay)
  \/ \E m \in 1..MaxMsgs, result \in HandlerResults : HandlerSettles(m, result)
  \/ \E m \in 1..MaxMsgs, bump \in FinishBumps : BackendFinish(m, bump)

Spec == Init /\ [][Next]_vars

\* ------------------------------------------------- the worker's side alone
\* a message that is in the backend's store when the process starts: put
\* there by an earlier run or another producer, with any payload, attempts
\* made so far and per-message attempts
StoredMsgs ==
  {[data |-> d, attemptsMade |-> n, attempts |-> a, delay |-> Undefined,
    via |-> "stored", at |-> 0, state |-> "wait"] :
     d \in Data, n \in 0..MaxMade, a \in {Undefined} \cup 1..MaxOverride}

\* the process after setDriver(), the definition of the Job and a register()
\* that ran to its end, with the store empty or holding one message
InitWorker ==
  /\ variant \in Variants
  /\ options \in JobOptions
  /\ now = 0
  /\ globalDriver = 1
  /\ conns = <<"open">>
  /\ waits = <<Settled(0)>>
  /\ probe = NoProbe
  /\ boot = NoBoot
  /\ rounds = <<>>
  /\ exitCode = "running"
  /\ made = TRUE
  /\ queues = <<NewQueue(1)>>
  /\ queue = 1
  /\ workers = <<[NewWorker(1, 1) EXCEPT !.attached = TRUE]>>
  /\ worker = 1
  /\ calls = [c \in Slots |-> Idle]
  /\ msgs \in {<<>>} \cup {<<s>> : s \in StoredMsgs}
  /\ runs = [m \in 1..Len(msgs) |-> NoRun]
  /\ log = [m \in 1..Len(msgs) |-> <<>>]
  /\ lastErr = "none"
  /\ started = 0
  /\ sinceClose = "no"

\* dispatching, delivery and the handlers, with the Job left registered
NextWorker ==
  \/ \E c \in Slots, data \in Data : Dispatch(c, data)
  \/ \E c \in Slots, data \in Data, delay \in Delays :
       DispatchWithDelay(c, data, delay)
  \/ \E c \in Slots : AddResume(c)
  \/ \E c \in Slots : AddDone(c)
  \/ \E m \in 1..MaxMsgs : DelayElapsed(m)
  \/ \E w \in 1..MaxWorkers, m \in 1..MaxMsgs : Deliver(w, m)
  \/ \E m \in 1..MaxMsgs, c \in Slots, delay \in OptDelays :
       Redispatch(m, c, delay)
  \/ \E m \in 1..MaxMsgs, c \in Slots, newData \in Data, delay \in OptDelays :
       RedispatchWithData(m, c, newData, delay)
  \/ \E m \in 1..MaxMsgs, result \in HandlerResults : HandlerSettles(m, result)
  \/ \E m \in 1..MaxMsgs, bump \in FinishBumps : BackendFinish(m, bump)

\* the event loop runs every continuation that is ready; the backend's timers
\* fire, its workers take every visible message in the end and it finishes
\* every job whose processor settled; a handler settles in the end
FairWorker ==
  /\ WF_vars(\E c \in Slots : AddResume(c))
  /\ WF_vars(\E c \in Slots : AddDone(c))
  /\ \A m \in 1..MaxMsgs :
       /\ WF_vars(DelayElapsed(m))
       /\ WF_vars(\E w \in 1..MaxWorkers : Deliver(w, m))
       /\ WF_vars(\E result \in HandlerResults : HandlerSettles(m, result))
       /\ WF_vars(\E bump \in FinishBumps : BackendFinish(m, bump))

SpecWorker == InitWorker /\ [][NextWorker]_vars /\ FairWorker

\* ------------------------------------------------- the queue's policy
\* a process that defines a Job with any combination of policy options
InitPolicy ==
  /\ variant \in Variants
  /\ options \in PolicyOptions
  /\ now = 0
  /\ globalDriver = 0
  /\ conns = <<>>
  /\ waits = <<>>
  /\ probe = NoProbe
  /\ boot = NoBoot
  /\ rounds = <<>>
  /\ exitCode = "running"
  /\ made = FALSE
  /\ queue = 0
  /\ worker = 0
  /\ queues = <<>>
  /\ workers = <<>>
  /\ calls = [c \in Slots |-> Idle]
  /\ msgs = <<>>
  /\ runs = <<>>
  /\ log = <<>>
  /\ lastErr = "none"
  /\ started = 0
  /\ sinceClose = "no"

\* the Job is defined and its queue comes to exist, by the constructor or by
\* the first getQueue()
NextPolicy ==
  \/ SetDriver
  \/ NewJob
  \/ \E c \in Slots : GetQueueInstance(c)
  \/ \E c \in Slots : QueueInstanceReturn(c)
  \/ \E c \in Slots : CreateQueueDone(c)
  \/ \E c \in Slots, data \in Data, delay \in Delays :
       DispatchWithDelay(c, data, delay)
  \/ \E c \in Slots : AddResume(c)
  \/ \E c \in Slots : AddDone(c)

SpecPolicy == InitPolicy /\ [][NextPolicy]_vars

\* ------------------------------------------- events that carry no job
\* the "failed" listener of register() for an event without a job: jobName,
\* jobId and attempt are undefined, error is err.message
JoblessLog ==
  [by |-> "listener", event |-> "job_failed", attempt |-> Undefined,
   error |-> "lost"]

JoblessSeen(m) == \E i \in 1..Len(log[m]) : log[m][i] = JoblessLog

\* a "failed" listener that puts the message back for another run
FailedWithoutJobRequeues(w, m) ==
  /\ w \in 1..Len(workers) /\ workers[w].state = "open" /\ workers[w].attached
  /\ m \in 1..Len(msgs) /\ msgs[m].state \in {"wait", "active"}
  /\ ~JoblessSeen(m)
  /\ log' = [log EXCEPT ![m] = Append(@, JoblessLog)]
  /\ msgs' = [msgs EXCEPT ![m].state = "wait"]
  /\ UNCHANGED <<config, proc, now, registry, started, globalDriver, made, queue, worker,
                 queues, workers, calls, runs, lastErr, sinceClose>>

\* the BullMQ worker emits "failed" with no job (it could not load the job
\* the failure is about, message m): the RedisWorker forwards (null, err) and
\* the listener of register() logs it
FailedWithoutJob(w, m) ==
  /\ w \in 1..Len(workers) /\ workers[w].state = "open" /\ workers[w].attached
  /\ m \in 1..Len(msgs) /\ msgs[m].state \in {"wait", "active"}
  /\ ~JoblessSeen(m)
  /\ log' = [log EXCEPT ![m] = Append(@, JoblessLog)]
  /\ UNCHANGED <<config, proc, now, registry, started, globalDriver, made, queue, worker,
                 queues, workers, calls, msgs, runs, lastErr, sinceClose>>

NextEvents ==
  \/ NextWorker
  \/ \E w \in 1..MaxWorkers, m \in 1..MaxMsgs : FailedWithoutJob(w, m)

SpecEvents == InitWorker /\ [][NextEvents]_vars

\* ------------------------------------------------- delays against the clock
\* the process after the definition of the Job and a register() that ran to
\* its end, in any of the three variants, with the store empty
InitDelay ==
  /\ variant \in AllVariants
  /\ options \in JobOptions
  /\ now = 0
  /\ globalDriver = IF variant = "legacy" THEN 0 ELSE 1
  /\ conns = <<"open">>   \* of the driver; legacy: `redis` of ./redis
  /\ waits = <<Settled(0)>>
  /\ probe = NoProbe
  /\ boot = NoBoot
  /\ rounds = <<>>
  /\ exitCode = "running"
  /\ made = TRUE
  /\ queues = <<NewQueue(1)>>
  /\ queue = 1
  /\ workers = <<[NewWorker(1, 1) EXCEPT !.attached = TRUE]>>
  /\ worker = 1
  /\ calls = [c \in Slots |-> Idle]
  /\ msgs = <<>>
  /\ runs = <<>>
  /\ log = <<>>
  /\ lastErr = "none"
  /\ started = 0
  /\ sinceClose = "no"

\* dispatching, delivery and the handlers while the backend's clock runs
NextDelay ==
  \/ Tick
  \/ \E m \in 1..MaxMsgs : TimerFires(m)
  \/ \E c \in Slots, data \in Data : Dispatch(c, data)
  \/ \E c \in Slots, data \in Data, delay \in Delays :
       DispatchWithDelay(c, data, delay)
  \/ \E c \in Slots : AddResume(c)
  \/ \E c \in Slots : AddDone(c)
  \/ \E w \in 1..MaxWorkers, m \in 1..MaxMsgs : Deliver(w, m)
  \/ \E m \in 1..MaxMsgs, c \in Slots, delay \in OptDelays :
       Redispatch(m, c, delay)
  \/ \E m \in 1..MaxMsgs, c \in Slots, newData \in Data, delay \in OptDelays :
       RedispatchWithData(m, c, newData, delay)
  \/ \E m \in 1..MaxMsgs, result \in HandlerResults : HandlerSettles(m, result)
  \/ \E m \in 1..MaxMsgs, bump \in FinishBumps : BackendFinish(m, bump)

SpecDelay == InitDelay /\ [][NextDelay]_vars

\* ------------------------------------------- enqueueing on a failing backend
\* the connection to Redis is lost, and found again
ConnectionDrops(d) ==
  /\ d \in 1..Len(conns) /\ conns[d] = "open"
  /\ conns' = [conns EXCEPT ![d] = "down"]
  /\ UNCHANGED <<config, proc, now, waits, probe, started, globalDriver, made, queue, worker, queues,
                 workers, calls, msgs, runs, log, lastErr, sinceClose>>

ConnectionBack(d) ==
  /\ d \in 1..Len(conns) /\ conns[d] = "down"
  /\ conns' = [conns EXCEPT ![d] = "open"]
  /\ UNCHANGED <<config, proc, now, waits, probe, started, globalDriver, made, queue, worker, queues,
                 workers, calls, msgs, runs, log, lastErr, sinceClose>>

NextEnqueue ==
  \/ \E d \in 1..MaxDrivers : ConnectionDrops(d)
  \/ \E d \in 1..MaxDrivers : ConnectionBack(d)
  \/ \E c \in Slots, data \in Data : Dispatch(c, data)
  \/ \E c \in Slots, data \in Data, delay \in Delays :
       DispatchWithDelay(c, data, delay)
  \/ \E c \in Slots : AddResume(c)
  \/ \E c \in Slots : AddDone(c)
  \/ \E m \in 1..MaxMsgs : DelayElapsed(m)
  \/ \E w \in 1..MaxWorkers, m \in 1..MaxMsgs : Deliver(w, m)
  \/ \E m \in 1..MaxMsgs, c \in Slots, delay \in OptDelays :
       Redispatch(m, c, delay)
  \/ \E m \in 1..MaxMsgs, c \in Slots, newData \in Data, delay \in OptDelays :
       RedispatchWithData(m, c, newData, delay)
  \/ \E m \in 1..MaxMsgs, result \in HandlerResults : HandlerSettles(m, result)
  \/ \E m \in 1..MaxMsgs, bump \in FinishBumps : BackendFinish(m, bump)

SpecEnqueue == InitDelay /\ [][NextEnqueue]_vars

\* ------------------------------------------------------------------ claims
\* the wrapper's catch branch has logged a failure of message m
WrapperFailed(m) ==
  \E i \in 1..Len(log[m]) : log[m][i].by = "wrapper" /\ log[m][i].event = "job_failed"

\* C1: whenever the handler of a delivered message throws (or rejects), the
\* wrapper settles with the value {success: false, error: <message>}, never
\* with an exception, and the step leaves every worker as it was
C1_FailureContained ==
  [][\A m \in 1..Len(runs) :
       (runs[m].pc = "running" /\ runs'[m].pc = "returned" /\
        runs'[m].res.kind = "throw")
       => /\ runs'[m].out = [kind |-> "value", success |-> FALSE,
                             error |-> runs'[m].res.text, data |-> "-"]
          /\ workers' = workers]_vars

\* C1 witness: a message whose handler threw is done, and the only worker,
\* which runs one handler at a time, is running the handler of another one
C1_Witness ==
  \E m, k \in 1..Len(msgs) :
    /\ m # k /\ WrapperFailed(m) /\ msgs[m].state = "completed"
    /\ Len(workers) = 1 /\ workers[1].concurrency = 1
    /\ runs[k].pc = "running" /\ runs[k].w = 1

\* C2: a message with attempts = 3 whose execution at attempt 1 failed is
\* retried by the backend: it is never completed without a second delivery
\* (attemptsMade is still 0 when no retry was scheduled)
C2_FailedAttemptRetried ==
  \A m \in 1..Len(msgs) :
    (msgs[m].attempts = 3 /\ WrapperFailed(m) /\ msgs[m].state = "completed")
    => msgs[m].attemptsMade >= 1

\* the backend workers that have been created and are not closed
LiveWorkers == {w \in 1..Len(workers) : workers[w].state # "closed"}

\* C3: under any interleaving of register() calls, at most one backend worker
\* has been created and is live for the Job
C3_AtMostOneWorker == Cardinality(LiveWorkers) <= 1

\* a step that starts a close() after a close() has completed
FurtherClose ==
  sinceClose = "done" /\ sinceClose' = "done" /\ started' = started + 1

\* C4: once a close() has completed, a further close() completes at once
\* without an error and issues no worker.close() and no queue.close(): no
\* call is left suspended and no handle is touched
C4_CloseIdempotent ==
  [][FurtherClose => /\ calls' = calls
                     /\ lastErr' = "none"
                     /\ <<queue, worker, queues, workers>>' =
                          <<queue, worker, queues, workers>>]_vars

\* C4 in the variant that creates its queue lazily only
C4_LazyCloseIdempotent ==
  [][(variant = "lazy" /\ FurtherClose)
       => /\ calls' = calls
          /\ lastErr' = "none"
          /\ <<queue, worker, queues, workers>>' =
               <<queue, worker, queues, workers>>]_vars

Invoked == {m \in 1..Len(runs) : runs[m].pc # "none"}

\* C6: the context of a delivered message whose backend attemptsMade is n
\* has attempt = n + 1
C6_AttemptIsMadePlusOne ==
  \A m \in Invoked : runs[m].ctx.attempt = msgs[m].attemptsMade + 1

\* C6 witness: a handler runs a message with attemptsMade = 2 as attempt 3
C6_Witness ==
  \E m \in Invoked : msgs[m].attemptsMade = 2 /\ runs[m].ctx.attempt = 3

\* C7: in every context canRetry is true exactly when attempt < maxAttempts
C7_CanRetryIffBelowMax ==
  \A m \in Invoked :
    runs[m].ctx.canRetry <=> runs[m].ctx.attempt < runs[m].ctx.maxAttempts

\* C7 witness: a handler runs the final allowed attempt, canRetry is false
C7_Witness ==
  \E m \in Invoked :
    /\ runs[m].ctx.attempt = runs[m].ctx.maxAttempts
    /\ runs[m].ctx.attempt > 1
    /\ ~runs[m].ctx.canRetry

\* C8: maxAttempts is the message's own opts.attempts when it has one, else
\* the Job's attempts option when given, else 3
C8_MaxAttemptsPrecedence ==
  \A m \in Invoked :
    runs[m].ctx.maxAttempts =
      IF msgs[m].attempts # Undefined THEN msgs[m].attempts
      ELSE IF options.attempts # Undefined THEN options.attempts
      ELSE 3

\* C8 witness: a message whose own attempts differ from the Job's option is
\* run with its own
C8_Witness ==
  \E m \in Invoked :
    /\ msgs[m].attempts = 3 /\ options.attempts = 2
    /\ runs[m].ctx.maxAttempts = 3

\* C9: with the Job registered and the backend delivering fairly, a payload d
\* passed to dispatch(d) becomes a message carrying d, and for every such
\* message that waits the handler is invoked with a context whose data is d
C9_DispatchedIsDelivered ==
  /\ \A c \in Slots, d \in Data :
       (calls[c].op = "dispatch" /\ calls[c].data = d)
       ~> (\E m \in 1..Len(msgs) : msgs[m].via = "dispatch" /\ msgs[m].data = d)
  /\ \A m \in 1..MaxMsgs, d \in Data :
       (m <= Len(msgs) /\ msgs[m].via = "dispatch" /\ msgs[m].data = d /\
        msgs[m].state = "wait")
       ~> (m <= Len(runs) /\ runs[m].pc = "running" /\ runs[m].ctx.data = d)

\* C9 witness: the handler runs a dispatched message and sees its payload
C9_Witness ==
  \E m \in Invoked :
    /\ msgs[m].via = "dispatch" /\ runs[m].pc = "running"
    /\ runs[m].ctx.data = msgs[m].data

\* C10: the add() of a redispatch from a handler at any attempt stores a new
\* message with the payload of the running one (redispatch) or with newData
\* (redispatchWithData) and no attempt made, and leaves the running message
\* as it was; the context of a redispatched message has attempt = 1
C10_RedispatchIsNewMessage ==
  [][/\ \A c \in Slots :
          (calls[c].pc # "add_await" /\ calls'[c].pc = "add_await" /\
           calls'[c].op \in RedispatchOps /\ calls'[c].m # 0)
          => /\ calls'[c].m = Len(msgs) + 1
             /\ Len(msgs') = Len(msgs) + 1
             /\ msgs'[calls'[c].m].data =
                  IF calls'[c].op = "redispatch" THEN msgs[calls'[c].run].data
                  ELSE calls'[c].data
             /\ msgs'[calls'[c].m].attemptsMade = 0
             /\ \A m \in 1..Len(msgs) : msgs'[m] = msgs[m]
     /\ \A m \in 1..Len(runs') :
          (msgs'[m].via \in RedispatchOps /\ runs'[m].pc # "none")
          => runs'[m].ctx.attempt = 1]_vars

\* C10 witness: a message redispatched by a handler that ran at attempt 3 is
\* delivered, the original still has its two attempts made
C10_Witness ==
  \E m, k \in 1..Len(msgs) :
    /\ msgs[m].attemptsMade = 2 /\ msgs[k].via \in RedispatchOps
    /\ runs[k].pc = "running" /\ runs[k].ctx.attempt = 1

\* the registry, Job construction and dispatch, with setDriver repeated
NextRegistry ==
  \/ \E type \in DriverTypes : SetDriverCall(type)
  \/ GetDriverCall
  \/ HasDriverCall
  \/ NewJob
  \/ \E c \in Slots : GetQueueInstance(c)
  \/ \E c \in Slots : QueueInstanceReturn(c)
  \/ \E c \in Slots, data \in Data : Dispatch(c, data)
  \/ \E c \in Slots : CreateQueueDone(c)
  \/ \E c \in Slots : AddResume(c)
  \/ \E c \in Slots : AddDone(c)

SpecRegistry == Init /\ [][NextRegistry]_vars

\* C13: while no setDriver() has succeeded, getDriver() fails with "Driver
\* not initialized"; hasDriver() never fails, and it answers true exactly
\* when getDriver() would succeed
C13_GetDriverNeedsDriver ==
  /\ Len(conns) = 0
       => GetDriver = [NoProbe EXCEPT !.fn = "getDriver", !.ok = FALSE,
                                      !.err = "Driver not initialized"]
  /\ (probe.fn = "getDriver" /\ Len(conns) = 0)
       => ~probe.ok /\ probe.err = "Driver not initialized"
  /\ HasDriver \in BOOLEAN /\ (HasDriver <=> GetDriver.ok)
  /\ probe.fn = "hasDriver" => probe.ok /\ (probe.has <=> GetDriver.ok)

\* C13 witness: getDriver() has just failed in a process where no driver was
\* ever constructed
C13_Witness ==
  /\ probe.fn = "getDriver" /\ ~probe.ok /\ Len(conns) = 0
  /\ ~HasDriver

\* C14: the active driver is the one the most recent successful setDriver()
\* constructed, getDriver() returns it, and replacing a driver closes neither
\* its connection nor the handles made from it
C14_LatestDriverActive ==
  [][/\ Len(conns') > 0 => globalDriver' = Len(conns')
     /\ (probe'.fn = "getDriver" /\ probe'.ok) => probe'.driver = Len(conns')
     /\ \A c \in Slots : (calls[c].pc # "gq_await" /\ calls'[c].pc = "gq_await")
                            => calls'[c].d = Len(conns)
     /\ \A d \in 1..Len(conns') : conns'[d] = "open"
     /\ globalDriver' # globalDriver
          => queues' = queues /\ workers' = workers]_vars

\* C14 witness: after a second setDriver(), getDriver() returns the second
\* driver while a queue handle of the first is still open
C14_Witness ==
  /\ Len(conns) >= 2
  /\ probe.fn = "getDriver" /\ probe.ok /\ probe.driver = Len(conns)
  /\ \E q \in 1..Len(queues) : queues[q].driver < globalDriver /\ ~queues[q].closed

\* the errors of a misconfigured or misused Job
ConfigErrors == {"DriverNotInitialized", "WorkerAlreadyRegistered"}

\* a step in which a Job call is started and has ended when the step is over
EndsAtOnce == started' = started + 1 /\ calls' = calls

\* C15 (the errors that are raised): a call that ends with a configuration
\* error ends in the step that starts it, before any suspension, with no
\* queue, worker or message created and the Job's handles as they were; and
\* dispatch(), dispatchWithDelay() and register() started with no driver
\* installed do end so
C15_RaisedFailFast ==
  [][/\ \A c \in Slots :
          (calls[c].pc # "idle" /\ calls'[c].pc = "idle")
          => lastErr' \notin ConfigErrors
     /\ (EndsAtOnce /\ lastErr' \in ConfigErrors)
          => <<queue, worker, queues, workers, msgs>>' =
               <<queue, worker, queues, workers, msgs>>
     /\ (started' = started + 1 /\ globalDriver = 0 /\ sinceClose' = "no")
          => EndsAtOnce /\ lastErr' = "DriverNotInitialized"]_vars

\* C15: configuration errors fail fast. Beyond C15_RaisedFailFast, a
\* register() goes past its guard only on a Job that has no worker and no
\* other register() in progress: every second register() is refused before
\* any backend operation
C15_ConfigErrorsFailFast ==
  [][\A c \in Slots :
       (calls[c].pc = "idle" /\ calls'[c].op = "register")
       => /\ worker = 0
          /\ \A x \in Slots : calls[x].op # "register"]_vars

\* the backend refuses the add() of call c in this step
Refused(c) ==
  /\ calls[c].pc # "add_await" /\ calls'[c].pc = "add_await"
  /\ calls'[c].m = 0

\* the add() of call c settles in this step
AddSettles(c) == calls[c].pc = "add_await" /\ calls'[c].pc = "idle"

\* C16: when the backend's add() fails, dispatch(), dispatchWithDelay(),
\* redispatch() and redispatchWithData() reject with that error (and resolve
\* only when it succeeded), no message is recorded, and a handler that
\* awaited the redispatch goes on with the rejection
C16_EnqueueFailureSurfaces ==
  [][\A c \in Slots :
       /\ Refused(c) => msgs' = msgs
       /\ AddSettles(c)
            => /\ calls[c].op \in AddOps
               /\ lastErr' = IF calls[c].m = 0 THEN "AddFailed" ELSE "none"
               /\ msgs' = msgs
               /\ calls[c].run # 0 => runs'[calls[c].run].pc = "running"]_vars

\* C16 witness: a redispatch from a handler has been refused by the backend
\* while the connection is down, and nothing was stored for it
C16_Witness ==
  \E c \in Slots :
    /\ calls[c].pc = "add_await" /\ calls[c].m = 0
    /\ calls[c].op \in RedispatchOps /\ calls[c].run # 0
    /\ conns[queues[calls[c].q].driver] = "down"
    /\ \A m \in 1..Len(msgs) : msgs[m].via \notin RedispatchOps

\* --------------------------------------- the worker process (start-worker)
\* what is not the worker process's own state
job == <<config, now, started, made, queue, worker, queues, workers, calls,
         msgs, runs, log, lastErr, sinceClose>>

\* initializeWorker: loadConfig() and setDriver(config.driver); a throwing
\* setDriver is caught at the end of initializeWorker: process.exit(1)
BootSetDriver(type) ==
  /\ boot.pc = "start" /\ exitCode = "running"
  /\ SetDriverTo(type)
  /\ boot' = [boot EXCEPT !.pc = IF CreateDriver(type).ok THEN "discover"
                                                          ELSE "exited"]
  /\ exitCode' = IF CreateDriver(type).ok THEN "running" ELSE "exit1"
  /\ UNCHANGED <<job, rounds>>

\* discoverJobs(jobsDir) found n job files; with none, initializeWorker
\* returns and installs no signal handler
Discover(n) ==
  /\ boot.pc = "discover" /\ exitCode = "running"
  /\ boot' = [boot EXCEPT !.found = n,
                          !.pc = IF n = 0 THEN "returned" ELSE "register"]
  /\ UNCHANGED <<job, registry, globalDriver, rounds, exitCode>>

\* `await job.register(); registeredJobs.push(job)` of the next job: after
\* the last one the SIGINT and SIGTERM handlers are installed; a rejected
\* register() is caught at the end of initializeWorker: process.exit(1)
BootRegister(ok) ==
  /\ boot.pc = "register" /\ exitCode = "running"
  /\ IF ok
       THEN /\ boot' = [boot EXCEPT !.registered = @ + 1,
                           !.pc = IF boot.registered + 1 = boot.found
                                    THEN "serving" ELSE "register"]
            /\ exitCode' = exitCode
       ELSE /\ boot' = [boot EXCEPT !.pc = "exited"]
            /\ exitCode' = "exit1"
  /\ UNCHANGED <<job, registry, globalDriver, rounds>>

\* a signal arrives before the handlers are installed: Node ends the process
EarlySignal ==
  /\ boot.pc \in {"start", "discover", "register", "returned"}
  /\ exitCode = "running"
  /\ boot' = [boot EXCEPT !.pc = "exited"]
  /\ exitCode' = "killed"
  /\ UNCHANGED <<job, registry, globalDriver, rounds>>

\* shutdown(signal): registeredJobs.map((job) => job.close().catch(...)),
\* which starts the close() of every registered job, then awaits them all
Shutdown ==
  /\ boot.pc = "serving" /\ exitCode = "running"
  /\ Len(rounds) < MaxSignals
  /\ rounds' = Append(rounds, [j \in 1..boot.registered |-> "pending"])
  /\ UNCHANGED <<job, registry, globalDriver, boot, exitCode>>

\* a shutdown whose Promise.all has no catch on the closes: the first close()
\* that rejects rejects shutdown(), an unhandled rejection
CloseSettlesUncaught(r, j, ok) ==
  /\ exitCode = "running"
  /\ r \in 1..Len(rounds) /\ j \in DOMAIN rounds[r]
  /\ rounds[r][j] = "pending"
  /\ rounds' = [rounds EXCEPT ![r][j] = IF ok THEN "closed" ELSE "failed"]
  /\ exitCode' = IF ~ok THEN "exit1"
                 ELSE IF \A k \in DOMAIN rounds[r] : rounds'[r][k] # "pending"
                   THEN "exit0" ELSE "running"
  /\ boot' = [boot EXCEPT !.pc = IF exitCode' = "running" THEN @ ELSE "exited"]
  /\ UNCHANGED <<job, registry, globalDriver>>

\* the close() of job j that shutdown r started settles: a rejection is
\* caught and logged ("Error closing job"); when it was the last one pending
\* Promise.all resolves and shutdown goes on to process.exit(0)
CloseSettles(r, j, ok) ==
  /\ exitCode = "running"
  /\ r \in 1..Len(rounds) /\ j \in DOMAIN rounds[r]
  /\ rounds[r][j] = "pending"
  /\ rounds' = [rounds EXCEPT ![r][j] = IF ok THEN "closed" ELSE "failed"]
  /\ exitCode' = IF \A k \in DOMAIN rounds[r] : rounds'[r][k] # "pending"
                   THEN "exit0" ELSE "running"
  /\ boot' = [boot EXCEPT !.pc = IF exitCode' = "running" THEN @ ELSE "exited"]
  /\ UNCHANGED <<job, registry, globalDriver>>

NextShutdown ==
  \/ \E type \in DriverTypes : BootSetDriver(type)
  \/ \E n \in 0..MaxJobs : Discover(n)
  \/ \E ok \in BOOLEAN : BootRegister(ok)
  \/ EarlySignal
  \/ Shutdown
  \/ \E r \in 1..MaxSignals, j \in 1..MaxJobs, ok \in BOOLEAN :
       CloseSettles(r, j, ok)

\* every close() settles in the end, resolved or rejected
FairShutdown ==
  \A r \in 1..MaxSignals, j \in 1..MaxJobs :
    WF_vars(\E ok \in BOOLEAN : CloseSettles(r, j, ok))

SpecShutdown == Init /\ [][NextShutdown]_vars /\ FairShutdown

\* C17: a shutdown starts close() on every registered job; a close() that
\* fails changes no other job's close and does not end the process; the
\* process exits with code 0, and only once every close() of a shutdown has
\* settled; and with every close() settling, the shutdown does exit
C17_ShutdownIsolated ==
  /\ [][/\ Len(rounds') > Len(rounds)
            => DOMAIN rounds'[Len(rounds')] = 1..boot.registered
        /\ \A r \in 1..Len(rounds) : \A j \in DOMAIN rounds[r] :
             (rounds[r][j] = "pending" /\ rounds'[r][j] = "failed")
             => /\ \A k \in DOMAIN rounds[r] \ {j} :
                     rounds'[r][k] = rounds[r][k]
                /\ exitCode' \in {"running", "exit0"}
        /\ (Len(rounds) > 0 /\ exitCode' # exitCode)
             => /\ exitCode' = "exit0"
                /\ \E r \in 1..Len(rounds') :
                     /\ DOMAIN rounds'[r] = 1..boot.registered
                     /\ \A j \in DOMAIN rounds'[r] :
                          rounds'[r][j] \in {"closed", "failed"}]_vars
  /\ (Len(rounds) > 0) ~> (exitCode = "exit0")

\* C17 witness: the process has exited with code 0 after a shutdown in which
\* one job's close() failed and the closes of two other jobs completed
C17_Witness ==
  /\ exitCode = "exit0"
  /\ \E r \in 1..Len(rounds) : \E j \in DOMAIN rounds[r] :
       /\ rounds[r][j] = "failed"
       /\ Cardinality({k \in DOMAIN rounds[r] : rounds[r][k] = "closed"}) >= 2

\* no close() has touched the Job: no handle is closed or closing and no
\* close() is in progress
NotClosed ==
  /\ \A q \in 1..Len(queues) : ~queues[q].closed
  /\ \A w \in 1..Len(workers) : workers[w].state = "open"
  /\ \A c \in Slots : calls[c].op # "close"

\* C18: on a Job that is not closed, under any interleaving of its
\* operations, driver.createQueue has made at most one queue handle and every
\* operation that holds a handle holds that one
C18_AtMostOneQueue ==
  NotClosed
  => /\ Len(queues) <= 1
     /\ \A c \in Slots : calls[c].q # 0 => calls[c].q = queue

\* the concurrency the Job is configured with, 1 when the option is omitted
Configured == IF options.concurrency = Undefined THEN 1 ELSE options.concurrency

\* C19: the handler invocations of the Job that are in flight are never more
\* than the Job's configured concurrency
C19_WithinConcurrency == Cardinality(Invoked) <= Configured

\* C19 (one worker): while the Job has had at most one live worker, the
\* invocations in flight are within the configured concurrency
C19_OneWorkerWithinConcurrency ==
  Cardinality(LiveWorkers) <= 1 => Cardinality(Invoked) <= Configured

\* C20: a handler invocation has no outcome while the handler runs; when the
\* handler settles the wrapper hands the backend one outcome, {success: true,
\* data: r} for a handler that returned r and {success: false, error:
\* message} for one that threw; the outcome never changes afterwards and the
\* invocation ends with the backend's verdict on it
C20_ExactlyOneOutcome ==
  [][\A m \in 1..Len(runs) :
       /\ runs[m].pc \in {"none", "running", "awaiting"} => runs[m].out = NoOut
       /\ runs[m].pc = "returned"
            => /\ runs[m].out.kind = "value"
               /\ runs'[m] \in {runs[m], NoRun}
       /\ (runs[m].pc = "running" /\ runs'[m].pc = "returned")
            => /\ runs'[m].res \in HandlerResults
               /\ runs'[m].res.kind = "return"
                    => runs'[m].out = [kind |-> "value", success |-> TRUE,
                                       error |-> "-",
                                       data |-> runs'[m].res.text]
               /\ runs'[m].res.kind = "throw"
                    => runs'[m].out = [kind |-> "value", success |-> FALSE,
                                       error |-> runs'[m].res.text,
                                       data |-> "-"]
       /\ (runs[m].pc # "none" /\ runs'[m].pc = "none")
            => runs[m].pc = "returned"]_vars

\* C20 witness: a handler has thrown and the wrapper has handed the backend
\* the failure outcome with the error's message
C20_Witness ==
  \E m \in 1..Len(runs) :
    /\ runs[m].pc = "returned" /\ runs[m].res.kind = "throw"
    /\ runs[m].out = [kind |-> "value", success |-> FALSE, error |-> "boom",
                      data |-> "-"]

\* what defining a Job may do: it comes to exist with no queue and no worker,
\* no handle is created, and the definition does not fail
DefinesOnly ==
  /\ (~made /\ made')
       => /\ queue' = 0 /\ worker' = 0
          /\ queues' = queues /\ workers' = workers
  /\ (~made /\ ~made') => lastErr' = lastErr

\* C21: defining a Job performs no backend operation and needs no driver: it
\* never fails, with or without a driver installed, and leaves the queue and
\* the worker absent
C21_DefineNeedsNoDriver == [][DefinesOnly]_vars

\* C21 (lazy variant): the same, for the variant that creates its queue on
\* first use
C21_LazyDefineNeedsNoDriver == [][variant = "lazy" => DefinesOnly]_vars

\* a listener of register() writes a record for message m in this step
ListenerLogs(m) ==
  /\ m \in 1..Len(log) /\ Len(log'[m]) > Len(log[m])
  /\ log'[m][Len(log'[m])].by = "listener"

\* C22: a step in which a completed or failed listener logs changes nothing
\* of the Job (handles, calls) and no other message; on the message itself
\* there is only the backend's own verdict on the outcome the wrapper
\* returned, and nothing at all when the event carried no job
C22_ListenersOnlyLog ==
  [][\A m \in 1..MaxMsgs :
       ListenerLogs(m)
       => /\ <<queue, worker, queues, workers, calls, lastErr>>' =
               <<queue, worker, queues, workers, calls, lastErr>>
          /\ Len(msgs') = Len(msgs)
          /\ \A k \in 1..Len(msgs) :
               k # m => msgs'[k] = msgs[k] /\ runs'[k] = runs[k] /\
                        log'[k] = log[k]
          /\ IF log'[m][Len(log'[m])].attempt = Undefined
               THEN msgs' = msgs /\ runs' = runs
               ELSE /\ runs[m].pc = "returned"
                    /\ runs[m].out.kind = "value"
                         => msgs'[m] = [msgs[m] EXCEPT !.state = "completed"]
                    /\ runs[m].out.kind = "exception"
                         => /\ msgs'[m].state \in {"wait", "failed"}
                            /\ msgs'[m].data = msgs[m].data]_vars

\* C22 witness: the failed listener has logged an event that carried no job
\* for a message whose handler is running
C22_Witness ==
  \E m \in 1..Len(msgs) :
    /\ JoblessSeen(m) /\ msgs[m].state = "active" /\ runs[m].pc = "running"

\* the value of a policy option as the queue must have it: the one supplied,
\* the default for an omitted one
Supplied(opt, default) == IF opt = Undefined THEN default ELSE opt

\* queue handle q has the policy of JobOptions in the options named by S
PolicyOf(q, S) ==
  /\ "attempts" \in S
       => queues[q].attempts = Supplied(options.attempts, DefaultAttempts)
  /\ "backoffDelay" \in S
       => queues[q].backoffDelay =
            Supplied(options.backoffDelay, DefaultBackoffDelay)
  /\ "removeOnComplete" \in S
       => queues[q].removeOnComplete =
            Supplied(options.removeOnComplete, DefaultRemoveOnComplete)
  /\ "removeOnFail" \in S
       => queues[q].removeOnFail =
            Supplied(options.removeOnFail, DefaultRemoveOnFail)

PolicyNames == {"attempts", "backoffDelay", "removeOnComplete", "removeOnFail"}

\* C23: every queue the Job creates has attempts, backoffDelay,
\* removeOnComplete and removeOnFail as given in JobOptions (0 included where
\* 0 is allowed), and the defaults 3 / 1000 / 100 / 50 for an omitted option
\* only; a message carries no policy of its own but the queue's attempts
C23_QueuePolicyAsGiven ==
  /\ \A q \in 1..Len(queues) : PolicyOf(q, PolicyNames)
  /\ \A m \in 1..Len(msgs) :
       \E q \in 1..Len(queues) : msgs[m].attempts = queues[q].attempts

\* C23 (options other than 0): the same for the options that are omitted or
\* given a value other than 0
C23_NonZeroPolicyAsGiven ==
  \A q \in 1..Len(queues) :
    PolicyOf(q, {n \in PolicyNames : options[n] # 0})

\* ------------------------------------------ the driver's connection wait
\* new RedisDriver(config) through setDriver: the constructor creates the
\* connection, which is still connecting, starts waitForConnection() and
\* returns without awaiting it
SetDriverConnecting ==
  /\ globalDriver < MaxDrivers
  /\ now + ConnectWaitMs <= MaxNow
  /\ conns' = Append(conns, "down")
  /\ waits' = Append(waits, Waiting(now))
  /\ globalDriver' = Len(conns) + 1
  /\ probe' = [NoProbe EXCEPT !.fn = "setDriver"]
  /\ UNCHANGED <<config, proc, now, started, made, queue, worker, queues,
                 workers, calls, msgs, runs, log, lastErr, sinceClose>>

\* the connection emits "ready": onReady clears the timer and resolves the
\* promise if it is still pending
ConnectionReady(d) ==
  /\ d \in 1..Len(conns) /\ conns[d] = "down"
  /\ conns' = [conns EXCEPT ![d] = "open"]
  /\ waits' = IF waits[d].state = "pending"
                THEN [waits EXCEPT ![d] = [@ EXCEPT !.state = "resolved",
                                                    !.by = "ready"]]
                ELSE waits
  /\ UNCHANGED <<config, proc, now, probe, started, globalDriver, made, queue,
                 worker, queues, workers, calls, msgs, runs, log, lastErr,
                 sinceClose>>

\* a timer callback that warns and leaves the promise pending
WaitTimeoutForgets(d) ==
  /\ d \in 1..Len(waits) /\ waits[d].state = "pending"
  /\ now >= waits[d].at + ConnectWaitMs
  /\ UNCHANGED vars

\* the timer of waitForConnection() fires: it warns and resolves the promise
\* with the connection as it is
WaitTimeout(d) ==
  /\ d \in 1..Len(waits) /\ waits[d].state = "pending"
  /\ now >= waits[d].at + ConnectWaitMs
  /\ waits' = [waits EXCEPT ![d] = [@ EXCEPT !.state = "resolved",
                                             !.by = "timeout"]]
  /\ UNCHANGED <<config, proc, now, conns, probe, started, globalDriver, made,
                 queue, worker, queues, workers, calls, msgs, runs, log,
                 lastErr, sinceClose>>

\* no timer of a pending wait is due
NoWaitDue ==
  \A d \in 1..Len(waits) :
    waits[d].state = "pending" => now < waits[d].at + ConnectWaitMs

\* the clock advances while no timer is due: a due timer fires first
ClockTick == NoWaitDue /\ Tick

NextConnect ==
  \/ SetDriverConnecting
  \/ \E d \in 1..MaxDrivers : ConnectionReady(d)
  \/ \E d \in 1..MaxDrivers : WaitTimeout(d)
  \/ ClockTick
  \/ NewJob
  \/ \E c \in Slots : GetQueueInstance(c)
  \/ \E c \in Slots : QueueInstanceReturn(c)
  \/ \E c \in Slots : RegisterStart(c)
  \/ \E c \in Slots : CreateQueueDone(c)
  \/ \E c \in Slots : RegisterCreateWorker(c)
  \/ \E c \in Slots : CreateWorkerDone(c)
  \/ \E c \in Slots : RegisterAssign(c)

\* timers that are due fire and promise continuations run
FairConnect ==
  /\ WF_vars(ClockTick)
  /\ \A d \in 1..MaxDrivers : WF_vars(WaitTimeout(d))
  /\ \A c \in Slots : WF_vars(CreateQueueDone(c))
  /\ \A c \in Slots : WF_vars(CreateWorkerDone(c))

SpecConnect == Init /\ [][NextConnect]_vars /\ FairConnect

\* call c is suspended on the driver's connectionPromise
AwaitsConnection(c) == calls[c].pc \in {"gq_await", "cw_await"}

\* C24: constructing a driver completes in one step with the connection still
\* connecting; its connection wait never rejects and resolves only because
\* the connection got ready or because the bounded wait ran out, at the
\* latest when that wait is over; and every createQueue() and createWorker()
\* suspended on it eventually proceeds, whether or not Redis is ever reached
C24_CreationProceeds ==
  /\ [][\A d \in 1..Len(waits') :
          /\ d > Len(waits) => /\ globalDriver' = d /\ probe'.ok
                               /\ waits'[d].state = "pending"
          /\ waits'[d].state \in {"pending", "resolved"}
          /\ (d <= Len(waits) /\ waits[d].state = "resolved")
               => waits'[d] = waits[d]
          /\ (d <= Len(waits) /\ waits[d].state = "pending"
                /\ waits'[d].state = "resolved")
               => \/ waits'[d].by = "ready" /\ conns'[d] = "open"
                  \/ /\ waits'[d].by = "timeout" /\ conns[d] = "down"
                     /\ now >= waits[d].at + ConnectWaitMs]_vars
  /\ [](\A d \in 1..Len(waits) :
          waits[d].state = "pending" => now < waits[d].at + ConnectWaitMs + TickMs)
  /\ \A c \in Slots : AwaitsConnection(c) ~> ~AwaitsConnection(c)

\* C24 witness: a queue was created on a driver whose wait ended by the
\* timeout, with Redis still unreachable
C24_Witness ==
  \E q \in 1..Len(queues) :
    /\ queues[q].driver \in 1..Len(waits)
    /\ waits[queues[q].driver].by = "timeout"
    /\ conns[queues[q].driver] = "down"

\* the backend settles, in this step, an execution of m whose handler threw
FailedExecutionSettled(m) ==
  /\ m \in 1..Len(runs) /\ runs[m].pc = "returned"
  /\ runs[m].res.kind = "throw"
  /\ runs'[m].pc = "none"

\* C25: an execution whose handler failed is never settled as completed:
\* the message goes back to wait while attempts are left and to failed once
\* they are exhausted
C25_FailingEndsFailed ==
  [][\A m \in 1..Len(msgs) :
       FailedExecutionSettled(m)
         => /\ msgs'[m].state # "completed"
            /\ msgs'[m].state =
                 IF runs[m].ctx.canRetry THEN "wait" ELSE "failed"]_vars

\* the part of C25 that the code keeps: a message this Job enqueued is never
\* executed with attempt above maxAttempts
C25_AttemptWithinMax ==
  \A m \in 1..Len(runs) :
    (runs[m].pc # "none" /\ msgs[m].via # "stored")
      => runs[m].ctx.attempt <= runs[m].ctx.maxAttempts

\* the backend hands message m to a worker in this step
DeliveryOf(m) ==
  m \in 1..Len(msgs) /\ msgs[m].state = "wait" /\ msgs'[m].state = "active"

\* the user's handler is invoked for message m in this step
InvocationStarts(m) ==
  m \in 1..Len(runs) /\ runs[m].pc = "none" /\ runs'[m].pc = "running"

\* C26: a step is a delivery of m exactly when it starts one invocation of the
\* handler for m; that invocation's context carries the data and attemptsMade
\* + 1 of the message delivered, no other invocation is started or touched by
\* the step, and a message is active exactly while its one invocation lives
C26_OncePerDelivery ==
  /\ [][\A m \in 1..Len(msgs) :
          /\ DeliveryOf(m) <=> InvocationStarts(m)
          /\ InvocationStarts(m)
               => /\ runs'[m].ctx.data = msgs[m].data
                  /\ runs'[m].ctx.attempt = msgs[m].attemptsMade + 1
                  /\ \A n \in 1..Len(runs) : n # m => runs'[n] = runs[n]]_vars
  /\ [](\A m \in 1..Len(msgs) :
          msgs[m].state = "active" <=> runs[m].pc # "none")

\* C26 witness: two deliveries are being handled at once, each in its own
\* invocation, with different data and different attempt counts
C26_Witness ==
  \E m, n \in 1..Len(runs) :
    /\ runs[m].pc = "running" /\ runs[n].pc = "running"
    /\ runs[m].ctx.data # runs[n].ctx.data
    /\ runs[m].ctx.attempt # runs[n].ctx.attempt

\* --------------------------------------------- two messages handled at once
\* a process whose Job is registered, with two messages of different data,
\* at different attempts, waiting in the store
InitConcurrent ==
  /\ variant \in Variants
  /\ options \in JobOptions
  /\ now = 0
  /\ globalDriver = 1
  /\ conns = <<"open">>
  /\ waits = <<Settled(0)>>
  /\ probe = NoProbe
  /\ boot = NoBoot
  /\ rounds = <<>>
  /\ exitCode = "running"
  /\ made = TRUE
  /\ queues = <<NewQueue(1)>>
  /\ queue = 1
  /\ workers = <<[NewWorker(1, 1) EXCEPT !.attached = TRUE]>>
  /\ worker = 1
  /\ calls = [c \in Slots |-> Idle]
  /\ msgs \in {<<s, t>> : s \in StoredMsgs, t \in StoredMsgs}
  /\ msgs[1].data = "a" /\ msgs[2].data = "b"
  /\ msgs[1].attemptsMade < msgs[2].attemptsMade
  /\ runs = [m \in 1..Len(msgs) |-> NoRun]
  /\ log = [m \in 1..Len(msgs) |-> <<>>]
  /\ lastErr = "none"
  /\ started = 0
  /\ sinceClose = "no"

NextConcurrent ==
  \/ \E w \in 1..MaxWorkers, m \in 1..MaxMsgs + 1 : Deliver(w, m)
  \/ \E m \in 1..MaxMsgs + 1, c \in Slots, delay \in OptDelays :
       Redispatch(m, c, delay)
  \/ \E m \in 1..MaxMsgs + 1, c \in Slots, newData \in Data, delay \in OptDelays :
       RedispatchWithData(m, c, newData, delay)
  \/ \E c \in Slots : AddResume(c)
  \/ \E c \in Slots : AddDone(c)
  \/ \E m \in 1..MaxMsgs + 1 : DelayElapsed(m)
  \/ \E m \in 1..MaxMsgs + 1, result \in HandlerResults : HandlerSettles(m, result)
  \/ \E m \in 1..MaxMsgs + 1, bump \in FinishBumps : BackendFinish(m, bump)

SpecConcurrent == InitConcurrent /\ [][NextConcurrent]_vars

\* the invocations of the handler that are in progress
LiveRuns == {m \in 1..Len(runs) : runs[m].pc # "none"}

\* C27: whatever else runs, the context of an invocation in progress is the
\* one computed from its own message and no step changes it, and the add() of
\* a redispatch() called from the context of message A stores A's payload
C27_InvocationsIsolated ==
  /\ [](\A m \in LiveRuns :
          /\ runs[m].ctx.data = msgs[m].data
          /\ runs[m].ctx.attempt = msgs[m].attemptsMade + 1
          /\ runs[m].ctx.maxAttempts =
               Or(msgs[m].attempts, Or(options.attempts, DefaultAttempts))
          /\ runs[m].ctx.canRetry =
               (runs[m].ctx.attempt < runs[m].ctx.maxAttempts))
  /\ [][/\ \A m \in LiveRuns :
             runs'[m].pc # "none"
               => runs'[m].ctx = runs[m].ctx /\ runs'[m].job = runs[m].job
        /\ \A c \in Slots :
             (calls[c].pc # "add_await" /\ calls'[c].pc = "add_await" /\
              calls'[c].op = "redispatch" /\ calls'[c].m # 0)
             => msgs'[calls'[c].m].data = runs[calls'[c].run].ctx.data]_vars

\* C27 witness: the add() of a redispatch() from one invocation has stored a
\* message while another invocation, with other data, is in progress
C27_Witness ==
  \E c \in Slots, n \in LiveRuns :
    /\ calls[c].op = "redispatch" /\ calls[c].pc = "add_await"
    /\ calls[c].m # 0 /\ calls[c].run \in LiveRuns /\ calls[c].run # n
    /\ runs[n].ctx.data # runs[calls[c].run].ctx.data
    /\ msgs[calls[c].m].data = runs[calls[c].run].ctx.data

\* a new call can be started and the store has room for its message
CanStartAdd ==
  /\ \E c \in Slots : FreeSlot(c)
  /\ MsgRoom /\ QueueRoom /\ started < MaxOps

\* C28: a handler running with canRetry = false can still call redispatch();
\* the add() of a redispatch from such a context stores a new message with no
\* attempt made, and every redispatched message is handled with attempt = 1
C28_RedispatchBeyondBudget ==
  /\ [](\A m \in 1..Len(runs) :
          (runs[m].pc = "running" /\ ~runs[m].ctx.canRetry /\ CanStartAdd)
            => ENABLED (\E c \in Slots, delay \in OptDelays :
                          Redispatch(m, c, delay)))
  /\ [][/\ \A c \in Slots :
             (calls[c].pc # "add_await" /\ calls'[c].pc = "add_await" /\
              calls'[c].op \in RedispatchOps /\
              ~runs[calls'[c].run].ctx.canRetry)
             => /\ calls'[c].m = Len(msgs) + 1
                /\ msgs'[calls'[c].m].attemptsMade = 0
                /\ msgs'[calls'[c].m].state \in {"wait", "delayed"}
        /\ \A m \in 1..Len(msgs) :
             (InvocationStarts(m) /\ msgs[m].via \in RedispatchOps)
               => runs'[m].ctx.attempt = 1 /\ runs'[m].ctx.maxAttempts >= 1]_vars

\* C28 witness: a message redispatched from the last attempt of a message
\* found in the store is being handled, at attempt 1
C28_Witness ==
  \E o, k \in 1..Len(msgs) :
    /\ msgs[o].via = "stored" /\ msgs[k].via = "redispatch"
    /\ msgs[o].attemptsMade + 1 >=
         Or(msgs[o].attempts, Or(options.attempts, DefaultAttempts))
    /\ runs[k].pc = "running" /\ runs[k].ctx.attempt = 1
    /\ runs[k].ctx.data = msgs[o].data

\* the record this step appends to the log of message m by `by`, if any
Logged(m, by) ==
  /\ m \in 1..Len(log) /\ Len(log'[m]) = Len(log[m]) + 1
  /\ log'[m][Len(log'[m])].by = by

\* the driver hands the handler the backend's attemptsMade as it is, the
\* context shows it plus one, and so does the wrapper's job_failed record
WrapperTranslatesOnce ==
  \A m \in 1..Len(runs) :
    /\ runs[m].pc # "none"
         => /\ runs[m].job.attemptsMade = msgs[m].attemptsMade
            /\ runs[m].ctx.attempt = msgs[m].attemptsMade + 1
    /\ (runs[m].pc = "running" /\ Logged(m, "wrapper"))
         => log'[m][Len(log'[m])].attempt = runs[m].ctx.attempt

\* C29: for one execution the context, the wrapper's job_failed record and
\* the record the listener logs for that execution's completed or failed
\* event all show the same attempt, attemptsMade + 1
C29_TranslatedOnce ==
  [][/\ WrapperTranslatesOnce
     /\ \A m \in 1..Len(runs) :
          (runs[m].pc = "returned" /\ Logged(m, "listener"))
            => log'[m][Len(log'[m])].attempt = runs[m].ctx.attempt]_vars

\* the part of C29 that the code keeps: the driver, the context and the
\* wrapper's record agree on attemptsMade + 1
C29_WrapperTranslatesOnce == [][WrapperTranslatesOnce]_vars

\* the backend emits the completed or failed event of message m in this step
EventEmitted(m) ==
  m \in 1..Len(runs) /\ runs[m].pc = "returned" /\ runs'[m].pc = "none"

\* a worker that exists without the listeners of register() on it
InWindow(w) ==
  w \in 1..Len(workers) /\ workers[w].state = "open" /\ ~workers[w].attached

\* C30: a worker handles messages only once register() has attached its
\* listeners, and every completed or failed event the backend emits for a
\* message appends the listener's record of that event to the log
C30_NoEventLost ==
  /\ [](\A m \in 1..Len(runs) :
          runs[m].pc # "none" => workers[runs[m].w].attached)
  /\ [][\A m \in 1..Len(msgs) :
          EventEmitted(m)
            => /\ Logged(m, "listener")
               /\ log'[m][Len(log'[m])].event =
                    IF msgs'[m].state = "completed" THEN "job_completed"
                                                    ELSE "job_failed"]_vars

\* C30 witness: a message waits in the store while a worker that could take
\* it exists and register() has not attached its listeners yet
C30_Witness ==
  \E w \in 1..Len(workers), m \in 1..Len(msgs) :
    InWindow(w) /\ msgs[m].state = "wait" /\ workers[w].q = queue

\* a setDriver() call has ended in this step
SetDriverEnds == probe'.fn = "setDriver" /\ probe' # probe

\* C31: createDriver() succeeds for "redis" only; a setDriver() that fails
\* ends with the error of createDriver() and leaves the installed driver, the
\* drivers constructed and what getDriver() and hasDriver() answer as they were
C31_FailedSetDriverKeepsRegistry ==
  /\ [](\A type \in DriverTypes :
          /\ CreateDriver(type).ok <=> type = "redis"
          /\ type = "rabbitmq"
               => CreateDriver(type).err = "RabbitMQ driver not yet implemented"
          /\ type = "other" => CreateDriver(type).err = "Unknown driver type")
  /\ [][(SetDriverEnds /\ ~probe'.ok)
          => /\ probe'.err \in {"RabbitMQ driver not yet implemented",
                                "Unknown driver type"}
             /\ globalDriver' = globalDriver
             /\ conns' = conns /\ waits' = waits
             /\ GetDriver' = GetDriver
             /\ HasDriver' = HasDriver]_vars

\* C31 witness: a setDriver() has just failed in a process that had installed
\* a driver, and that driver is still the one getDriver() returns
C31_Witness ==
  /\ probe.fn = "setDriver" /\ ~probe.ok
  /\ globalDriver # 0 /\ globalDriver = Len(conns)
  /\ GetDriver.ok /\ GetDriver.driver = globalDriver /\ HasDriver

\* the events of the records logged for message m, in order
Events(lg) == [i \in 1..Len(lg) |-> lg[i].event]

\* C32: when the first execution of a message ends, the records logged for
\* it are one job_failed and no job_completed if its handler threw, and one
\* job_completed and no job_failed if it returned
C32_OneTerminalRecord ==
  [][\A m \in 1..Len(msgs) :
       (EventEmitted(m) /\ Len(log[m]) <= 1)
         => Events(log'[m]) = IF runs[m].res.kind = "throw"
                                THEN <<"job_failed">>
                                ELSE <<"job_completed">>]_vars

\* the part of C32 that the code keeps: an execution whose handler returned is
\* logged job_completed once and never job_failed
C32_ReturnedLoggedCompleted ==
  [][\A m \in 1..Len(msgs) :
       (EventEmitted(m) /\ runs[m].res.kind = "return")
         => Events(log'[m]) = <<"job_completed">>]_vars

\* call c calls add() on its queue handle in this step
AddIssued(c) == calls[c].pc # "add_await" /\ calls'[c].pc = "add_await"

\* C33: every add() of a dispatch or redispatch call is made on a queue
\* handle on which no close() has been called
C33_AddOnOpenHandle ==
  [][\A c \in Slots : AddIssued(c) => ~queues[calls'[c].q].closed]_vars

\* ----------------------------------- setDriver() between dispatch and register
NextRebind ==
  \/ \E type \in DriverTypes : SetDriverCall(type)
  \/ NewJob
  \/ \E c \in Slots, data \in Data : Dispatch(c, data)
  \/ \E c \in Slots : CreateQueueDone(c)
  \/ \E c \in Slots : AddResume(c)
  \/ \E c \in Slots : AddDone(c)
  \/ \E c \in Slots : RegisterStart(c)
  \/ \E c \in Slots : RegisterCreateWorker(c)
  \/ \E c \in Slots : CreateWorkerDone(c)
  \/ \E c \in Slots : RegisterAssign(c)

SpecRebind == Init /\ [][NextRebind]_vars

\* C34: every worker was created by the driver that created the queue handle
\* it was created for
C34_WorkerOnQueueDriver ==
  \A w \in 1..Len(workers) : workers[w].driver = queues[workers[w].q].driver

\* the part of C34 that the code keeps: while setDriver() has succeeded at
\* most once, every worker is on the driver of its queue
C34_OneDriverWorkerOnQueueDriver ==
  Len(conns) <= 1 => C34_WorkerOnQueueDriver

\* a close() that ran alone has completed and the Job holds no handle
BackToInitial == sinceClose = "done" => worker = 0 /\ queue = 0

\* the first Job call after a completed close() is not refused as a double
\* registration and works on no handle that was closed
FreshAfterClose ==
  (sinceClose = "done" /\ started' = started + 1)
    => /\ calls' = calls => lastErr' # "WorkerAlreadyRegistered"
       /\ \A c \in Slots :
            (calls'[c] # calls[c] /\ calls'[c].q # 0)
              => ~queues'[calls'[c].q].closed
       /\ \A w \in 1..Len(workers') :
            w > Len(workers) => ~queues'[workers'[w].q].closed

\* C35: after a close() has completed the Job has no worker and no queue
\* handle, and the next dispatch() or register() is accepted and gets a queue
\* handle that is not a closed one
C35_ClosedJobIsFresh == [](BackToInitial) /\ [][FreshAfterClose]_vars

\* C35 in the variant that creates its queue lazily only
C35_LazyClosedJobIsFresh ==
  /\ [](variant = "lazy" => BackToInitial)
  /\ [][variant = "lazy" => FreshAfterClose]_vars

\* ------------------------------------------------ a worker.close() that fails
\* a close() that catches the error of worker.close() and goes on
CloseWorkerFailsSwallowed(c, st) ==
  /\ calls[c].pc = "wclose_await"
  /\ workers' = [workers EXCEPT ![calls[c].w].state = st]
  /\ worker' = 0
  /\ CloseQueue(c, calls[c], "no")
  /\ UNCHANGED <<config, proc, now, registry, started, globalDriver, made,
                 queue, msgs, runs, log>>

\* `await this.worker.close()` rejects: close() throws there, before
\* `this.worker = null` and before the queue part; the backend's worker is
\* left as it is by then (st)
CloseWorkerFails(c, st) ==
  /\ calls[c].pc = "wclose_await"
  /\ workers' = [workers EXCEPT ![calls[c].w].state = st]
  /\ Settle(c, Done(calls[c], "WorkerCloseFailed"))
  /\ sinceClose' = "no"
  /\ UNCHANGED <<config, proc, now, registry, started, globalDriver, made,
                 queue, worker, queues, msgs, runs, log>>

NextCloseFail ==
  \/ \E c \in Slots : CloseStart(c)
  \/ \E c \in Slots : CloseWorkerDone(c)
  \/ \E c \in Slots, st \in {"open", "closing"} : CloseWorkerFails(c, st)
  \/ \E c \in Slots : CloseQueueDone(c)
  \/ \E w \in 1..MaxWorkers, m \in 1..MaxMsgs : Deliver(w, m)
  \/ \E m \in 1..MaxMsgs, result \in HandlerResults : HandlerSettles(m, result)
  \/ \E m \in 1..MaxMsgs, bump \in FinishBumps : BackendFinish(m, bump)

SpecCloseFail == InitWorker /\ [][NextCloseFail]_vars

\* the worker.close() awaited by call c rejects in this step
WorkerCloseRejects(c) ==
  /\ calls[c].pc = "wclose_await" /\ calls'[c].pc # "wclose_await"
  /\ \E st \in {"open", "closing"} :
       workers' = [workers EXCEPT ![calls[c].w].state = st]

\* C36: a close() whose worker.close() rejects ends there with that error:
\* it calls no queue.close() and leaves this.worker and this.queue as they
\* were; and a close() started while the Job has a worker calls
\* worker.close() on that worker first
C36_FailedWorkerCloseKeepsHandles ==
  [][\A c \in Slots :
       /\ WorkerCloseRejects(c)
            => /\ calls'[c] = Idle /\ lastErr' = "WorkerCloseFailed"
               /\ worker' = worker /\ queue' = queue /\ queues' = queues
       /\ (calls[c].op # "close" /\ calls'[c].op = "close" /\ worker # 0)
            => /\ calls'[c].pc = "wclose_await" /\ calls'[c].w = worker
               /\ queues' = queues]_vars

\* C36 witness: after a close() failed at worker.close(), the Job still has
\* its worker and its open queue handle, and a further close() is closing the
\* worker again
C36_Witness ==
  /\ lastErr = "WorkerCloseFailed"
  /\ worker # 0 /\ queue # 0 /\ ~queues[queue].closed
  /\ \E c \in Slots : /\ calls[c].op = "close" /\ calls[c].pc = "wclose_await"
                      /\ calls[c].w = worker

\* ----------------------------------------------- a createWorker() that fails
\* a register() that notes the worker before createWorker() has settled
CreateWorkerFailsMarked(c) ==
  /\ calls[c].pc = "cw_await"
  /\ ConnectionWaited(calls[c].d)
  /\ Len(workers) < MaxWorkers
  /\ workers' = Append(workers, [NewWorker(calls[c].d, calls[c].q)
                                   EXCEPT !.state = "closed"])
  /\ worker' = Len(workers) + 1
  /\ Settle(c, Done(calls[c], "CreateWorkerFailed"))
  /\ sinceClose' = "no"
  /\ UNCHANGED <<config, proc, now, registry, started, globalDriver, made,
                 queue, queues, msgs, runs, log>>

\* driver.createWorker() rejects (`new Worker(...)` throws): register()
\* throws at `await workerResult`, before `this.worker = ...` and before the
\* listeners are attached
CreateWorkerFails(c) ==
  /\ calls[c].pc = "cw_await"
  /\ ConnectionWaited(calls[c].d)
  /\ Settle(c, Done(calls[c], "CreateWorkerFailed"))
  /\ sinceClose' = "no"
  /\ UNCHANGED <<config, proc, now, registry, started, globalDriver, made,
                 queue, worker, queues, workers, msgs, runs, log>>

\* the eager register(): a createWorker() that throws ends the call at once,
\* before `this.worker = ...`
RegisterThrows(c) ==
  /\ variant = "eager" /\ made /\ FreeSlot(c) /\ worker = 0
  /\ Settle(c, Done([Idle EXCEPT !.op = "register"], "CreateWorkerFailed"))
  /\ sinceClose' = "no"
  /\ started < MaxOps /\ started' = started + 1
  /\ UNCHANGED <<config, proc, now, registry, globalDriver, made, queue,
                 worker, queues, workers, msgs, runs, log>>

NextRegisterFail ==
  \/ SetDriver
  \/ NewJob
  \/ \E c \in Slots : RegisterStart(c)
  \/ \E c \in Slots : RegisterThrows(c)
  \/ \E c \in Slots : CreateQueueDone(c)
  \/ \E c \in Slots : RegisterCreateWorker(c)
  \/ \E c \in Slots : CreateWorkerDone(c)
  \/ \E c \in Slots : CreateWorkerFails(c)
  \/ \E c \in Slots : RegisterAssign(c)
  \/ \E c \in Slots, data \in Data : Dispatch(c, data)
  \/ \E c \in Slots : AddResume(c)
  \/ \E c \in Slots : AddDone(c)

SpecRegisterFail == Init /\ [][NextRegisterFail]_vars

\* a register() ends in this step because createWorker() failed
RegisterFailed ==
  /\ lastErr' = "CreateWorkerFailed"
  /\ \/ \E c \in Slots : calls[c].pc = "cw_await" /\ calls'[c] = Idle
     \/ started' = started + 1 /\ calls' = calls

\* a register() is started in this step on a Job that has no worker
RegisterOnUnregistered ==
  /\ started' = started + 1 /\ worker = 0
  /\ \/ \E c \in Slots : calls[c].op # "register" /\ calls'[c].op = "register"
     \/ calls' = calls /\ worker' # 0

\* C37: a register() that ends because createWorker() failed leaves the Job
\* without a worker of its own making, creates no worker and attaches no
\* listener, and keeps the queue handle; a register() on a Job without a
\* worker is not refused as a double registration, and it uses the queue
\* handle the Job has instead of creating one
C37_FailedRegisterLeavesUnregistered ==
  [][/\ RegisterFailed
          => /\ worker' = worker /\ workers' = workers
             /\ queue' = queue /\ queue # 0 /\ queues' = queues
     /\ (started' = started + 1 /\ worker = 0)
          => lastErr' # "WorkerAlreadyRegistered"
     /\ (RegisterOnUnregistered /\ queue # 0)
          => /\ queues' = queues /\ queue' = queue
             /\ \A c \in Slots :
                  calls'[c] # calls[c] => calls'[c].q = queue]_vars

\* C37 witness: after a register() failed at createWorker(), the Job has no
\* worker and no worker exists; a second register() is under way on the queue
\* handle the Job kept
C37_Witness ==
  /\ lastErr = "CreateWorkerFailed" /\ started = 2
  /\ worker = 0 /\ Len(workers) = 0 /\ queue # 0 /\ Len(queues) = 1
  /\ \E c \in Slots : /\ calls[c].op = "register" /\ calls[c].pc = "cw_await"
                      /\ calls[c].q = queue

\* call c issues its add() in this step and the backend stores the message
Stores(c) ==
  /\ calls[c].pc # "add_await" /\ calls'[c].pc = "add_await"
  /\ calls'[c].m # 0

\* C11: the delay given to dispatchWithDelay(data, delayMs) is the delay
\* option of the message the backend stores, and the handler is not invoked
\* for that message before delayMs have elapsed on the backend's clock since
\* it was added
C11_DelayRespected ==
  [][/\ \A c \in Slots :
          (Stores(c) /\ calls'[c].op = "dispatchWithDelay")
          => /\ msgs'[calls'[c].m].delay = calls'[c].delay
             /\ msgs'[calls'[c].m].at = now
     /\ \A m \in 1..Len(msgs') :
          (msgs'[m].via = "dispatchWithDelay" /\ runs'[m].pc # "none")
          => now' >= msgs'[m].at + msgs'[m].delay]_vars

\* C11 witness: a message added at a later time with a delay of 5000 is run
\* by the handler, 5000 after it was added
C11_Witness ==
  \E m \in 1..Len(msgs) :
    /\ msgs[m].via = "dispatchWithDelay" /\ msgs[m].delay = 5000
    /\ msgs[m].at > 0 /\ runs[m].pc = "running"
    /\ now >= msgs[m].at + 5000

\* a stored message without the trace of how its delay was given
Masked(msg) == [msg EXCEPT !.delay = Undefined, !.via = "-"]

====
